---- MODULE Spec2Model ----
(***************************************************************************)
(* A model of the undo request manager of                                  *)
(* src/backend/access/undo/undorequest.c: the arena of UndoRequest         *)
(* objects, the three RBTrees over them, the scheduler cursor, the         *)
(* oldest-FXID cache, and the serialized data that survives a shutdown.    *)
(*                                                                         *)
(* Every function that takes the manager's LWLock holds it from its first  *)
(* to its last access of shared state, so each call is one atomic action.  *)
(* Pointers to UndoRequest objects are indexes 1..Capacity into            *)
(* all_requests, NULL is 0.  An RBTree is the sequence of the requests its *)
(* nodes point to, in the order of a LeftRightWalk.                        *)
(***************************************************************************)
EXTENDS Integers, Sequences, FiniteSets, TLC

(***************************************************************************)
(* Bounds of the model.                                                    *)
(***************************************************************************)
Capacity == 3      \* 'capacity' given to InitializeUndoRequestManager
SoftLimit == 1     \* 'soft_limit' given to InitializeUndoRequestManager
MaxFxid == 3       \* transactions have the FullTransactionIds 1..MaxFxid
MaxDbid == 2       \* databases have the Oids 1..MaxDbid
MaxSize == 2       \* transactions write 1..MaxSize bytes of undo
MaxTicks == 1      \* the clock advances at most MaxTicks times
MaxRestarts == 1   \* the system is shut down and restarted at most MaxRestarts times
TickSeconds == 10  \* seconds by which the clock advances at a time
MaxBackends == 2   \* backends that call the functions at the same time

(***************************************************************************)
(* Values of the program.                                                  *)
(***************************************************************************)
NULL == 0
InvalidFullTransactionId == 0
InvalidOid == 0
InvalidUndoRecPtr == 0
DT_NOBEGIN == -1               \* precedes every timestamp
UndoRequestDataSize == 56      \* sizeof(UndoRequestData)

Slots == 1..Capacity
Fxids == 1..MaxFxid
Dbids == 1..MaxDbid

FullTransactionIdIsValid(x) == x # InvalidFullTransactionId
FullTransactionIdPrecedes(a, b) == a < b
FullTransactionIdEquals(a, b) == a = b
OidIsValid(x) == x # InvalidOid
UndoRecPtrIsValid(x) == x # InvalidUndoRecPtr

\* tz plus ms milliseconds; timestamps count microseconds
TimestampTzPlusMilliseconds(tz, ms) == tz + ms * 1000

VARIABLES
    all_requests,            \* Slots -> [d: UndoRequestData, retry_time]
    first_free_request,      \* the free list of requests, its head first
    free_request_nodes,      \* how many UndoRequestNodes are on the node free list
    utilization,
    source,                  \* which RBTree GetNextUndoRequest checks next
    requests_by_fxid,
    requests_by_size,
    requests_by_retry_time,
    oldest_fxid_valid,
    oldest_fxid,
    now,                     \* what GetCurrentTimestamp() returns
    owner,                   \* Slots -> the backend that holds the request: "none",
                             \* "xact" (the transaction of its fxid is in progress
                             \* or prepared) or "undo" (it is to perform the undo
                             \* in the foreground)
    handed,                  \* the requests GetNextUndoRequest has returned to
                             \* workers that have not yet given them back
    used,                    \* the FullTransactionIds given out so far
    phase,                   \* "fresh", "recovery" or "running"
    restarts,                \* how often the system has been restarted
    error,                   \* "none", or how the program stopped
    lock                     \* who holds urm->lock: pairs of a backend and the
                             \* function in which it called LWLockAcquire

vars == <<all_requests, first_free_request, free_request_nodes, utilization,
          source, requests_by_fxid, requests_by_size, requests_by_retry_time,
          oldest_fxid_valid, oldest_fxid, now, owner, handed, used,
          phase, restarts, error, lock>>

(***************************************************************************)
(* UndoRequestData and UndoRequest.                                        *)
(***************************************************************************)
UndoRequestData(fxid, dbid, size, sl, el, su, eu) ==
    [fxid |-> fxid, dbid |-> dbid, size |-> size,
     start_location_logged |-> sl, end_location_logged |-> el,
     start_location_unlogged |-> su, end_location_unlogged |-> eu]

\* the memory the manager is built in is zero-filled shared memory
ZeroedUndoRequest ==
    [d |-> UndoRequestData(0, 0, 0, 0, 0, 0, 0), retry_time |-> 0]

(***************************************************************************)
(* The comparators of the three RBTrees, on UndoRequest values.            *)
(***************************************************************************)
UndoRequestNodeCompareRetryTime(a, b) ==
    IF a.retry_time # b.retry_time
    THEN (IF a.retry_time < b.retry_time THEN -1 ELSE 1)
    ELSE IF FullTransactionIdPrecedes(a.d.fxid, b.d.fxid) THEN -1
    ELSE IF FullTransactionIdPrecedes(b.d.fxid, a.d.fxid) THEN 1
    ELSE 0

UndoRequestNodeCompareFXID(a, b) ==
    IF FullTransactionIdPrecedes(a.d.fxid, b.d.fxid) THEN -1
    ELSE IF FullTransactionIdPrecedes(b.d.fxid, a.d.fxid) THEN 1
    ELSE 0

\* a comparator that puts smaller sizes first
UndoRequestNodeCompareSizeAscending(a, b) ==
    IF a.d.size # b.d.size
    THEN (IF a.d.size < b.d.size THEN -1 ELSE 1)
    ELSE IF FullTransactionIdPrecedes(a.d.fxid, b.d.fxid) THEN -1
    ELSE IF FullTransactionIdPrecedes(b.d.fxid, a.d.fxid) THEN 1
    ELSE 0

UndoRequestNodeCompareSize(a, b) ==
    IF a.d.size # b.d.size
    THEN (IF a.d.size < b.d.size THEN 1 ELSE -1)
    ELSE IF FullTransactionIdPrecedes(a.d.fxid, b.d.fxid) THEN -1
    ELSE IF FullTransactionIdPrecedes(b.d.fxid, a.d.fxid) THEN 1
    ELSE 0

\* the comparator rbt_initialize gave the tree named t
Compare(t, a, b) ==
    CASE t = "fxid" -> UndoRequestNodeCompareFXID(a, b)
      [] t = "size" -> UndoRequestNodeCompareSize(a, b)
      [] t = "retry" -> UndoRequestNodeCompareRetryTime(a, b)

(***************************************************************************)
(* lib/rbtree.c, on a record m of the three trees ("fxid", "size",         *)
(* "retry"), the number of free nodes ("nodes") and the error raised so    *)
(* far ("err"); reqs is the arena the nodes point into.                    *)
(***************************************************************************)
Trees(f, s, r, n) == [fxid |-> f, size |-> s, retry |-> r, nodes |-> n, err |-> "none"]

rbt_leftmost(rbt) == IF rbt = <<>> THEN NULL ELSE rbt[1]

\* the request of the node that compares equal to key, or NULL
rbt_find(m, t, reqs, key) ==
    LET eq == {i \in 1..Len(m[t]) : Compare(t, reqs[m[t][i]], key) = 0}
    IN  IF eq = {} THEN NULL ELSE m[t][CHOOSE i \in eq : \A j \in eq : i <= j]

\* the callbacks rbt_initialize was given: a node is popped from the node
\* free list, or pushed onto it
\* UndoRequestNodeAllocate handing out the first node of the node free list
\* without popping it
UndoRequestNodeAllocateWithoutPop(m) ==
    IF m.nodes = 0
    THEN [m EXCEPT !.err = "no free UndoRequestNode"]
    ELSE m

UndoRequestNodeAllocate(m) ==
    IF m.nodes = 0
    THEN [m EXCEPT !.err = "no free UndoRequestNode"]
    ELSE [m EXCEPT !.nodes = m.nodes - 1]

\* UndoRequestNodeFree without the push onto the node free list
UndoRequestNodeLeak(m) == m

UndoRequestNodeFree(m) == [m EXCEPT !.nodes = m.nodes + 1]

\* rbt_delete_node returns at once when given no node
rbt_delete(m, t, node) ==
    IF node = NULL THEN m
    ELSE UndoRequestNodeFree(
             [m EXCEPT ![t] = SelectSeq(m[t], LAMBDA x : x # node)])

\* a key equal to one in the tree goes to the combiner, which raises an
\* ERROR; otherwise a node is allocated and linked in at its place
rbt_insert(m, t, reqs, req) ==
    LET before == {i \in 1..Len(m[t]) : Compare(t, reqs[m[t][i]], reqs[req]) < 0}
        k == Cardinality(before)
    IN  IF \E i \in 1..Len(m[t]) : Compare(t, reqs[m[t][i]], reqs[req]) = 0
        THEN [m EXCEPT !.err = "undo requests should never need to be combined"]
        ELSE LET a == UndoRequestNodeAllocate(m)
             IN  IF a.err # "none" THEN a
                 ELSE [a EXCEPT ![t] = SubSeq(m[t], 1, k) \o <<req>>
                                           \o SubSeq(m[t], k + 1, Len(m[t]))]

(***************************************************************************)
(* InsertUndoRequest and RemoveUndoRequest.  After an ERROR the rest of    *)
(* the function that raised it does not run.                               *)
(***************************************************************************)
\* an insertion that leaves out, without an error, a request whose key is in
\* the RBTree already
InsertUndoRequestDroppingEqual(m, t, reqs, req) ==
    IF m.err # "none" THEN m
    ELSE IF \E i \in 1..Len(m[t]) : Compare(t, reqs[m[t][i]], reqs[req]) = 0
    THEN m
    ELSE rbt_insert(m, t, reqs, req)

InsertUndoRequest(m, t, reqs, req) ==
    IF m.err # "none" THEN m ELSE rbt_insert(m, t, reqs, req)

RemoveUndoRequest(m, t, reqs, req) ==
    IF m.err # "none" THEN m ELSE rbt_delete(m, t, rbt_find(m, t, reqs, reqs[req]))

FindUndoRequest(m, reqs, fxid) ==
    rbt_find(m, "fxid", reqs, [d |-> [fxid |-> fxid], retry_time |-> DT_NOBEGIN])

\* the trees of the current state
Cur == Trees(requests_by_fxid, requests_by_size, requests_by_retry_time,
             free_request_nodes)

(***************************************************************************)
(* What the callers may pass.                                              *)
(***************************************************************************)
\* The transactions: transaction fxid runs in database DbidOf(fxid) and,
\* when it aborts or is prepared, has written SizeOf(fxid) bytes of undo.
\* Some transactions share a database and some a size, and the oldest
\* transaction is not the biggest.
DbidOf(fxid) == 1 + ((fxid - 1) % MaxDbid)
SizeOf(fxid) == IF fxid < MaxSize THEN fxid ELSE MaxSize

\* the locations FinalizeUndoRequest is given with a size: each end valid
\* iff its start is, and one of the two ranges valid; odd sizes come with
\* logged undo only, even sizes with unlogged undo only
Locations(size) ==
    IF size % 2 = 1
    THEN <<1, 2, InvalidUndoRecPtr, InvalidUndoRecPtr>>
    ELSE <<InvalidUndoRecPtr, InvalidUndoRecPtr, 3, 4>>

\* what the caller's variables may hold before a GetNextUndoRequest call
NoOut ==
    [req |-> NULL, out_dbid |-> InvalidOid,
     fxid |-> InvalidFullTransactionId,
     start_location_logged |-> InvalidUndoRecPtr,
     end_location_logged |-> InvalidUndoRecPtr,
     start_location_unlogged |-> InvalidUndoRecPtr,
     end_location_unlogged |-> InvalidUndoRecPtr]

StaleOut ==
    [NoOut EXCEPT !.out_dbid = MaxDbid, !.fxid = MaxFxid,
                  !.start_location_logged = 1, !.end_location_logged = 2]

\* what a record of palloc'd memory that was never written may hold
Uninitialized ==
    {UndoRequestData(0, 0, 0, 0, 0, 0, 0)} \cup
    {UndoRequestData(f, DbidOf(f), SizeOf(f), Locations(SizeOf(f))[1],
                     Locations(SizeOf(f))[2], Locations(SizeOf(f))[3],
                     Locations(SizeOf(f))[4]) : f \in Fxids}

\* the program has not stopped
Live == error = "none"

\* whether the manager's LWLock is held where the error err is raised: the
\* checks of RestoreUndoRequestData come before its LWLockAcquire and the
\* Assert of SerializeUndoRequestData after its LWLockRelease; the RBTree
\* callbacks and the loops that save requests run between the two
LockHeldWhenRaised(err) ==
    err \in {"undo requests should never need to be combined",
             "no free UndoRequestNode",
             "crash: NULL dereferenced"}

\* the elements of a sequence
RECURSIVE Range(_)
Range(seq) == IF seq = <<>> THEN {} ELSE {Head(seq)} \cup Range(Tail(seq))

\* the requests that are not on the free list, and those in an RBTree
NonFree == Slots \ Range(first_free_request)
Listed == Range(requests_by_fxid) \cup Range(requests_by_size)
              \cup Range(requests_by_retry_time)

\* the states of a request: FREE is on the free list, LISTED is in an
\* RBTree, UNLISTED is neither
Unlisted(req) == req \in NonFree /\ req \notin Listed

\* a backend holds the request: a transaction, or whoever performs its undo
Held(req) == owner[req] # "none" \/ req \in handed

\* the trees of the record m become the state's
SetTrees(m) ==
    /\ requests_by_fxid' = m.fxid
    /\ requests_by_size' = m.size
    /\ requests_by_retry_time' = m.retry
    /\ free_request_nodes' = m.nodes
    /\ error' = m.err

Init ==
    /\ all_requests = [i \in Slots |-> ZeroedUndoRequest]
    /\ first_free_request = [i \in Slots |-> i]
    /\ free_request_nodes = 2 * Capacity
    /\ utilization = 0
    /\ source = "fxid"
    /\ requests_by_fxid = <<>>
    /\ requests_by_size = <<>>
    /\ requests_by_retry_time = <<>>
    /\ oldest_fxid_valid = TRUE
    /\ oldest_fxid = InvalidFullTransactionId
    /\ now = 0
    /\ owner = [i \in Slots |-> "none"]
    /\ handed = {}
    /\ used = {}
    /\ phase = "fresh"
    /\ restarts = 0
    /\ error = "none"
    /\ lock = {}

(***************************************************************************)
(* RegisterUndoRequest                                                     *)
(***************************************************************************)
\* RegisterUndoRequest saving every fxid as the oldest one
RegisterOldestFxidAlways(fxid) ==
    IF oldest_fxid_valid THEN fxid ELSE oldest_fxid

RegisterOldestFxid(fxid) ==
    IF oldest_fxid_valid
       /\ (~FullTransactionIdIsValid(oldest_fxid)
           \/ FullTransactionIdPrecedes(fxid, oldest_fxid))
    THEN fxid ELSE oldest_fxid

\* the request the function returns: the head of the free list, or NULL
RegisterResult ==
    IF first_free_request # <<>> THEN Head(first_free_request) ELSE NULL

\* RegisterUndoRequest increasing utilization outside "if (req != NULL)"
RegisterAlwaysCounts(req) == utilization + 1

\* utilization when the function returns req
RegisterUtilization(req) ==
    IF req # NULL THEN utilization + 1 ELSE utilization

\* RegisterUndoRequest without "req->retry_time = DT_NOBEGIN"
RegisterKeepingRetryTime(req, fxid, dbid) ==
    [d |-> UndoRequestData(fxid, dbid, 0, InvalidUndoRecPtr,
           InvalidUndoRecPtr, InvalidUndoRecPtr, InvalidUndoRecPtr),
     retry_time |-> all_requests[req].retry_time]

\* "Initialize request object"
RegisterInitialize(req, fxid, dbid) ==
    [d |-> UndoRequestData(fxid, dbid, 0, InvalidUndoRecPtr,
           InvalidUndoRecPtr, InvalidUndoRecPtr, InvalidUndoRecPtr),
     retry_time |-> DT_NOBEGIN]

\* the call, whatever fxid it is given
DoRegisterUndoRequest(fxid, dbid) ==
    /\ Live
    /\ used' = used \cup {fxid}
    /\ phase' = "running"
    /\ utilization' = RegisterUtilization(RegisterResult)
    /\ IF RegisterResult # NULL
       THEN LET req == RegisterResult
            IN  /\ first_free_request' = Tail(first_free_request)
                /\ all_requests' = [all_requests EXCEPT ![req] =
                       RegisterInitialize(req, fxid, dbid)]
                /\ oldest_fxid' = RegisterOldestFxid(fxid)
                /\ owner' = [owner EXCEPT ![req] = "xact"]
       ELSE UNCHANGED <<first_free_request, all_requests, oldest_fxid, owner>>
    /\ UNCHANGED <<free_request_nodes, source, requests_by_fxid, requests_by_size,
                   requests_by_retry_time, oldest_fxid_valid, now, handed, restarts,
                   error>>

\* a transaction's fxid is new
RegisterUndoRequest(fxid, dbid) ==
    /\ fxid \notin used
    /\ DoRegisterUndoRequest(fxid, dbid)

\* a transaction's fxid is the oldest or the newest there is, whether or
\* not a request has it
RegisterAnyFxid ==
    \E fxid \in {1, MaxFxid} : DoRegisterUndoRequest(fxid, DbidOf(fxid))

\* Transaction MaxFxid + 1 begins when every request is in use: the call
\* that finds the free list empty.
RegisterAtCapacity ==
    /\ first_free_request = <<>>
    /\ RegisterUndoRequest(MaxFxid + 1, DbidOf(MaxFxid + 1))

(***************************************************************************)
(* FinalizeUndoRequest: called without the lock by the transaction that    *)
(* holds the UNLISTED request.                                             *)
(***************************************************************************)
FinalizeUndoRequest(req, size, loc) ==
    /\ Live
    /\ owner[req] = "xact"
    /\ Unlisted(req)
    /\ all_requests' = [all_requests EXCEPT ![req].d =
           [@ EXCEPT !.size = size,
                     !.start_location_logged = loc[1],
                     !.end_location_logged = loc[2],
                     !.start_location_unlogged = loc[3],
                     !.end_location_unlogged = loc[4]]]
    /\ owner' = [owner EXCEPT ![req] = "xact"]
    /\ phase' = "running"
    /\ UNCHANGED <<first_free_request, free_request_nodes, utilization, source,
                   requests_by_fxid, requests_by_size, requests_by_retry_time,
                   oldest_fxid_valid, oldest_fxid, now, handed, used, restarts, error>>

(***************************************************************************)
(* UnregisterUndoRequest                                                   *)
(***************************************************************************)
UnregisterRemove(m, reqs, req) ==
    IF reqs[req].retry_time # DT_NOBEGIN
    THEN RemoveUndoRequest(m, "retry", reqs, req)
    ELSE IF reqs[req].d.size # 0
    THEN RemoveUndoRequest(RemoveUndoRequest(m, "fxid", reqs, req), "size", reqs, req)
    ELSE m

UnregisterOldestFxidValid(req) ==
    IF FullTransactionIdEquals(all_requests[req].d.fxid, oldest_fxid)
    THEN FALSE ELSE oldest_fxid_valid

\* UnregisterUndoRequest without "--urm->utilization"
DoUnregisterKeepingUtilization(req) ==
    /\ SetTrees(UnregisterRemove(Cur, all_requests, req))
    /\ oldest_fxid_valid' = UnregisterOldestFxidValid(req)
    /\ first_free_request' = <<req>> \o first_free_request
    /\ UNCHANGED <<all_requests, oldest_fxid, source, utilization>>

\* UnregisterUndoRequest without the push onto the free list
DoUnregisterWithoutPush(req) ==
    /\ SetTrees(UnregisterRemove(Cur, all_requests, req))
    /\ oldest_fxid_valid' = UnregisterOldestFxidValid(req)
    /\ utilization' = utilization - 1
    /\ UNCHANGED <<all_requests, oldest_fxid, source, first_free_request>>

\* the function's effect on the manager
DoUnregisterUndoRequest(req) ==
    /\ SetTrees(UnregisterRemove(Cur, all_requests, req))
    /\ oldest_fxid_valid' = UnregisterOldestFxidValid(req)
    /\ first_free_request' = <<req>> \o first_free_request
    /\ utilization' = utilization - 1
    /\ UNCHANGED <<all_requests, oldest_fxid, source>>

UnregisterUndoRequest(req) ==
    /\ Live
    /\ req \in NonFree
    /\ DoUnregisterUndoRequest(req)
    /\ owner' = [owner EXCEPT ![req] = "none"]
    /\ handed' = handed \ {req}
    /\ phase' = "running"
    /\ UNCHANGED <<now, used, restarts>>

\* the call at commit, or after undo has succeeded, by the backend that
\* holds the request
UnregisterByHolder(req) == Held(req) /\ UnregisterUndoRequest(req)

(***************************************************************************)
(* PerformUndoInBackground                                                 *)
(***************************************************************************)
\* BackgroundUndoOK comparing with ">=" instead of ">"
BackgroundUndoOKOffByOne(req) ==
    IF utilization >= SoftLimit THEN FALSE ELSE TRUE

BackgroundUndoOK(req) ==
    IF utilization > SoftLimit THEN FALSE ELSE TRUE

\* PerformUndoInBackground without the check for a request without work
NoStartLocationUnchecked(req) == FALSE

\* there is no work to be done: no start location was set
NoStartLocation(req) ==
    /\ ~UndoRecPtrIsValid(all_requests[req].d.start_location_logged)
    /\ ~UndoRecPtrIsValid(all_requests[req].d.start_location_unlogged)

\* what the function returns
PerformUndoInBackgroundResult(req, force) ==
    IF NoStartLocation(req) THEN TRUE ELSE force \/ BackgroundUndoOK(req)

PerformUndoInBackground(req, force) ==
    /\ Live
    /\ owner[req] = "xact"
    /\ Unlisted(req)
    /\ phase' = "running"
    /\ IF NoStartLocation(req)
       THEN /\ DoUnregisterUndoRequest(req)
            /\ owner' = [owner EXCEPT ![req] = "none"]
            /\ handed' = handed \ {req}
       ELSE LET background == PerformUndoInBackgroundResult(req, force)
            IN  /\ IF background
                   THEN SetTrees(InsertUndoRequest(
                            InsertUndoRequest(Cur, "fxid", all_requests, req),
                            "size", all_requests, req))
                   ELSE UNCHANGED <<requests_by_fxid, requests_by_size,
                                    requests_by_retry_time, free_request_nodes, error>>
                /\ owner' = [owner EXCEPT ![req] =
                                IF background THEN "none" ELSE "undo"]
                /\ UNCHANGED <<all_requests, first_free_request, utilization,
                               source, oldest_fxid_valid, oldest_fxid, handed>>
    /\ UNCHANGED <<now, used, restarts>>

(***************************************************************************)
(* GetNextUndoRequest                                                      *)
(***************************************************************************)
SourceTree(src) ==
    CASE src = "fxid" -> requests_by_fxid
      [] src = "size" -> requests_by_size
      [] src = "retry" -> requests_by_retry_time

\* a rotation between requests_by_fxid and requests_by_size only
NextSourceSkipsRetry(src) ==
    CASE src = "fxid" -> "size"
      [] src = "size" -> "fxid"
      [] src = "retry" -> "fxid"

\* GetNextUndoRequest moving urm->source on by two
NextSourceSkips(src) ==
    CASE src = "fxid" -> "retry"
      [] src = "size" -> "fxid"
      [] src = "retry" -> "size"

\* GetNextUndoRequest leaving urm->source where it was
NextSourceStays(src) == src

NextSource(src) ==
    CASE src = "fxid" -> "size"
      [] src = "size" -> "retry"
      [] src = "retry" -> "fxid"

\* GetNextUndoRequest also passing over a request whose retry time is now
RetryTimeNotPast(src, node) ==
    src = "retry" /\ all_requests[node].retry_time >= now

\* an item of the retry time RBTree can be taken only when its retry time
\* is not in the future
RetryTimeInFuture(src, node) ==
    src = "retry" /\ all_requests[node].retry_time > now

\* GetNextUndoRequest without its test of the database
DatabaseMismatchUnchecked(dbid, node) == FALSE

DatabaseMismatch(dbid, node) ==
    OidIsValid(dbid) /\ all_requests[node].d.dbid # dbid

\* the loop over the three sources, from its iteration number nloops on
RECURSIVE GetNextLoop(_, _, _, _)
GetNextLoop(nloops, src, saw_db_mismatch, dbid) ==
    IF nloops >= 3
    THEN [req |-> NULL, from |-> "none", source |-> src,
          saw_db_mismatch |-> saw_db_mismatch]
    ELSE LET node == rbt_leftmost(SourceTree(src))
         IN  IF node = NULL
             THEN GetNextLoop(nloops + 1, NextSource(src), saw_db_mismatch, dbid)
             ELSE IF RetryTimeInFuture(src, node)
             THEN GetNextLoop(nloops + 1, NextSource(src), saw_db_mismatch, dbid)
             ELSE IF DatabaseMismatch(dbid, node)
             THEN GetNextLoop(nloops + 1, NextSource(src), TRUE, dbid)
             ELSE [req |-> node, from |-> src, source |-> NextSource(src),
                   saw_db_mismatch |-> saw_db_mismatch]

\* FindUndoRequestForDatabase: the interleaved walk of the three trees;
\* iter[i + 1] is how many nodes iterator i has returned
RECURSIVE FindUndoRequestForDatabaseFrom(_, _, _, _)
FindUndoRequestForDatabaseFrom(i, iter, doneflags, dbid) ==
    IF i \notin doneflags
    THEN LET rbt == SourceTree(<<"fxid", "size", "retry">>[i + 1])
             node == IF iter[i + 1] < Len(rbt) THEN rbt[iter[i + 1] + 1] ELSE NULL
         IN  IF node = NULL
             THEN IF doneflags \cup {i} = {0, 1, 2}
                  THEN NULL
                  ELSE FindUndoRequestForDatabaseFrom((i + 1) % 3, iter,
                                                      doneflags \cup {i}, dbid)
             ELSE IF all_requests[node].d.dbid = dbid
             THEN node
             ELSE FindUndoRequestForDatabaseFrom((i + 1) % 3,
                      [iter EXCEPT ![i + 1] = @ + 1], doneflags, dbid)
    ELSE FindUndoRequestForDatabaseFrom((i + 1) % 3, iter, doneflags, dbid)

\* a search that walks one RBTree to its end before it starts the next
FindUndoRequestForDatabaseTreeByTree(dbid) ==
    LET all == requests_by_fxid \o requests_by_size \o requests_by_retry_time
        hits == {k \in 1..Len(all) : all_requests[all[k]].d.dbid = dbid}
    IN  IF hits = {} THEN NULL
        ELSE all[CHOOSE k \in hits : \A h \in hits : k <= h]

FindUndoRequestForDatabase(dbid) ==
    FindUndoRequestForDatabaseFrom(0, <<0, 0, 0>>, {}, dbid)

\* GetNextUndoRequest searching for the database whatever
\* minimum_runtime_reached is
GetNextChoiceAlwaysSearching(dbid, minimum_runtime_reached) ==
    LET l == GetNextLoop(0, source, FALSE, dbid)
    IN  IF l.req = NULL /\ l.saw_db_mismatch
        THEN [l EXCEPT !.req = FindUndoRequestForDatabase(dbid),
                       !.from = "scan"]
        ELSE l

\* the request the call settles on, with the tree it came from
GetNextChoice(dbid, minimum_runtime_reached) ==
    LET l == GetNextLoop(0, source, FALSE, dbid)
    IN  IF l.req = NULL /\ l.saw_db_mismatch /\ ~minimum_runtime_reached
        THEN [l EXCEPT !.req = FindUndoRequestForDatabase(dbid),
                       !.from = "scan"]
        ELSE l

\* GetNextUndoRequest leaving its winner in the RBTrees
GetNextKeep(m, reqs, req) == m

\* GetNextUndoRequest leaving its winner in requests_by_size
GetNextRemoveFxidOnly(m, reqs, req) ==
    IF req = NULL THEN m
    ELSE IF reqs[req].retry_time # DT_NOBEGIN
    THEN RemoveUndoRequest(m, "retry", reqs, req)
    ELSE RemoveUndoRequest(m, "fxid", reqs, req)

GetNextRemove(m, reqs, req) ==
    IF req = NULL THEN m
    ELSE IF reqs[req].retry_time # DT_NOBEGIN
    THEN RemoveUndoRequest(m, "retry", reqs, req)
    ELSE RemoveUndoRequest(RemoveUndoRequest(m, "fxid", reqs, req), "size", reqs, req)

\* the result and the output parameters; prior is what the caller's
\* variables held
GetNextOut(prior, c) ==
    IF c.req = NULL
    THEN [prior EXCEPT !.req = NULL, !.out_dbid = InvalidOid]
    ELSE [req |-> c.req,
          out_dbid |-> all_requests[c.req].d.dbid,
          fxid |-> all_requests[c.req].d.fxid,
          start_location_logged |-> all_requests[c.req].d.start_location_logged,
          end_location_logged |-> all_requests[c.req].d.end_location_logged,
          start_location_unlogged |-> all_requests[c.req].d.start_location_unlogged,
          end_location_unlogged |-> all_requests[c.req].d.end_location_unlogged]

GetNextUndoRequest(dbid, minimum_runtime_reached) ==
    /\ Live
    /\ LET c == GetNextChoice(dbid, minimum_runtime_reached)
       IN  /\ source' = c.source
           /\ SetTrees(GetNextRemove(Cur, all_requests, c.req))
           /\ handed' = IF c.req = NULL THEN handed ELSE handed \cup {c.req}
    /\ phase' = "running"
    /\ UNCHANGED <<all_requests, first_free_request, utilization,
                   oldest_fxid_valid, oldest_fxid, now, owner, used, restarts>>

(***************************************************************************)
(* RescheduleUndoRequest                                                   *)
(***************************************************************************)
\* RescheduleUndoRequest without an assignment to req->retry_time
RescheduleKeepsRetryTime(req) == all_requests[req].retry_time

\* RescheduleUndoRequest with the delay of a first failure every time
RescheduleAlwaysTenSeconds(req) == TimestampTzPlusMilliseconds(now, 10 * 1000)

RescheduleRetryTime(req) ==
    IF all_requests[req].retry_time = DT_NOBEGIN
    THEN TimestampTzPlusMilliseconds(now, 10 * 1000)
    ELSE TimestampTzPlusMilliseconds(now, 30 * 1000)

RescheduleUndoRequest(req) ==
    /\ Live
    /\ owner[req] = "undo" \/ req \in handed
    /\ Unlisted(req)
    /\ LET reqs == [all_requests EXCEPT ![req].retry_time = RescheduleRetryTime(req)]
       IN  /\ all_requests' = reqs
           /\ SetTrees(InsertUndoRequest(Cur, "retry", reqs, req))
    /\ owner' = [owner EXCEPT ![req] = "none"]
    /\ handed' = handed \ {req}
    /\ phase' = "running"
    /\ UNCHANGED <<first_free_request, utilization, source, oldest_fxid_valid,
                   oldest_fxid, now, used, restarts>>

(***************************************************************************)
(* SerializeUndoRequestData.  Each loop that saves requests calls          *)
(* rbt_iterate in its condition and again in its body: it copies every     *)
(* second request of the walk, and after a walk of odd length it           *)
(* dereferences the NULL the second call returns.  The records of darray   *)
(* it never writes keep what palloc left in them.  Where assertions are    *)
(* compiled in, Assert(i == nrequests) stops the program instead.          *)
(***************************************************************************)
\* what one loop copies from the tree rbt
SavedRequests(rbt) ==
    [k \in 1..(Len(rbt) \div 2) |-> all_requests[rbt[2 * k]].d]

\* nrequests
SerializeCount == Len(requests_by_fxid) + Len(requests_by_retry_time)

\* darray[0 .. i - 1] when the function returns
SerializeSaved == SavedRequests(requests_by_fxid) \o SavedRequests(requests_by_retry_time)

SerializeDereferencesNull ==
    Len(requests_by_fxid) % 2 = 1 \/ Len(requests_by_retry_time) % 2 = 1

\* the ways the call can end: with an error, or with *nbytes and darray
SerializeUndoRequestData ==
    IF SerializeDereferencesNull
    THEN {[err |-> "crash: NULL dereferenced", nbytes |-> 0, darray |-> <<>>]}
    ELSE {[err |-> "crash: Assert(i == nrequests)", nbytes |-> 0, darray |-> <<>>] :
              x \in {i \in {Len(SerializeSaved)} : i # SerializeCount}}
         \cup
         {[err |-> "none",
           nbytes |-> UndoRequestDataSize * SerializeCount,
           darray |-> SerializeSaved \o rest] :
              rest \in [1..(SerializeCount - Len(SerializeSaved)) -> Uninitialized]}

(***************************************************************************)
(* RestoreUndoRequestData                                                  *)
(***************************************************************************)
\* a manager as InitializeUndoRequestManager leaves it
Initialized ==
    [reqs |-> [i \in Slots |-> ZeroedUndoRequest],
     free |-> [i \in Slots |-> i],
     util |-> 0,
     m |-> Trees(<<>>, <<>>, <<>>, 2 * Capacity)]

\* RestoreUndoRequestData without "req->retry_time = DT_NOBEGIN"
RestoredRequestKeepingRetryTime(old, d) == [old EXCEPT !.d = d]

\* the request old after the record d was copied into it
RestoredRequest(old, d) == [d |-> d, retry_time |-> DT_NOBEGIN]

\* the loop over the records, from record i on
RECURSIVE RestoreLoop(_, _, _, _)
RestoreLoop(st, darray, nrequests, i) ==
    IF i > nrequests \/ st.m.err # "none"
    THEN st
    ELSE IF st.free = <<>>
    THEN [st EXCEPT !.m.err = "crash: NULL dereferenced"]
    ELSE LET req == Head(st.free)
             reqs == [st.reqs EXCEPT ![req] = RestoredRequest(@, darray[i])]
         IN  RestoreLoop([reqs |-> reqs,
                          free |-> Tail(st.free),
                          util |-> st.util + 1,
                          m |-> InsertUndoRequest(
                                    InsertUndoRequest(st.m, "fxid", reqs, req),
                                    "size", reqs, req)],
                         darray, nrequests, i + 1)

\* RestoreUndoRequestData without the check of the number of requests
RestoreErrorSizeOnly(nbytes) ==
    IF nbytes % UndoRequestDataSize # 0
    THEN "undo request data size is corrupt"
    ELSE "none"

RestoreError(nbytes) ==
    IF nbytes % UndoRequestDataSize # 0
    THEN "undo request data size is corrupt"
    ELSE IF nbytes \div UndoRequestDataSize > Capacity
    THEN "too many undo requests"
    ELSE "none"

\* the function on the manager st, which becomes the state's
DoRestoreUndoRequestData(st, nbytes, darray) ==
    IF RestoreError(nbytes) # "none"
    THEN /\ error' = RestoreError(nbytes)
         /\ all_requests' = st.reqs
         /\ first_free_request' = st.free
         /\ utilization' = st.util
         /\ requests_by_fxid' = st.m.fxid
         /\ requests_by_size' = st.m.size
         /\ requests_by_retry_time' = st.m.retry
         /\ free_request_nodes' = st.m.nodes
         /\ UNCHANGED used
    ELSE LET r == RestoreLoop(st, darray, nbytes \div UndoRequestDataSize, 1)
         IN  /\ all_requests' = r.reqs
             /\ first_free_request' = r.free
             /\ utilization' = r.util
             /\ SetTrees(r.m)
             /\ used' = used \cup {darray[i].fxid : i \in 1..Len(darray)}

\* what the startup code may find on disk when no shutdown wrote it
RestoreRecord(fxid, dbid, size) ==
    UndoRequestData(fxid, dbid, size, Locations(size)[1], Locations(size)[2],
                    Locations(size)[3], Locations(size)[4])

RestoreRecords ==
    {RestoreRecord(f, DbidOf(f), SizeOf(f)) : f \in Fxids}

RestoreInputs ==
    {[nbytes |-> UndoRequestDataSize * Len(a), darray |-> a] :
        a \in {<<>>} \cup {<<x>> : x \in RestoreRecords}
              \cup {[f \in 1..Capacity |-> RestoreRecord(f, DbidOf(f), SizeOf(f))]}
              \cup {<<p[1], p[2]>> :
                        p \in {q \in RestoreRecords \X RestoreRecords :
                                   q[1].fxid # q[2].fxid}}}
    \cup {[nbytes |-> UndoRequestDataSize + 1,
           darray |-> <<RestoreRecord(1, DbidOf(1), SizeOf(1))>>],
          [nbytes |-> UndoRequestDataSize * (Capacity + 1),
           darray |-> [f \in 1..(Capacity + 1) |->
                          RestoreRecord(f, DbidOf(f), SizeOf(f))]]}

\* at startup, of a manager nothing has used yet
RestoreUndoRequestData(nbytes, darray) ==
    /\ Live
    /\ phase = "fresh"
    /\ DoRestoreUndoRequestData(Initialized, nbytes, darray)
    /\ phase' = "recovery"
    /\ UNCHANGED <<source, oldest_fxid_valid, oldest_fxid, now, owner, handed,
                   restarts>>

\* at startup, of two records of the same transaction
RestoreSameFxidTwice ==
    \E x \in RestoreRecords :
        RestoreUndoRequestData(UndoRequestDataSize * 2, <<x, x>>)

\* InitializeUndoRequestManager, on new shared memory
DoInitializeUndoRequestManager ==
    /\ source' = "fxid"
    /\ oldest_fxid_valid' = TRUE
    /\ oldest_fxid' = InvalidFullTransactionId

(***************************************************************************)
(* A shutdown and the restart after it: SerializeUndoRequestData, whose    *)
(* result is written to disk, then InitializeUndoRequestManager and        *)
(* RestoreUndoRequestData of what was written.  Nothing else runs between  *)
(* them.  When the serialization crashes, shared memory is discarded and   *)
(* the program stops.                                                      *)
(***************************************************************************)
Restart ==
    /\ Live
    /\ phase = "running"
    /\ restarts < MaxRestarts
    /\ \E saved \in SerializeUndoRequestData :
          IF saved.err # "none"
          THEN /\ all_requests' = Initialized.reqs
               /\ first_free_request' = Initialized.free
               /\ utilization' = 0
               /\ requests_by_fxid' = <<>>
               /\ requests_by_size' = <<>>
               /\ requests_by_retry_time' = <<>>
               /\ free_request_nodes' = 2 * Capacity
               /\ error' = saved.err
               /\ UNCHANGED used
          ELSE DoRestoreUndoRequestData(Initialized, saved.nbytes, saved.darray)
    /\ DoInitializeUndoRequestManager
    /\ owner' = [i \in Slots |-> "none"]
    /\ handed' = {}
    /\ phase' = "recovery"
    /\ restarts' = restarts + 1
    /\ UNCHANGED now

(***************************************************************************)
(* SuspendPreparedUndoRequest                                              *)
(***************************************************************************)
\* SuspendPreparedUndoRequest leaving the request in both RBTrees
SuspendRemoveNothing(m, reqs, req) == m

\* SuspendPreparedUndoRequest leaving the request in requests_by_size
SuspendRemoveFxidOnly(m, reqs, req) == RemoveUndoRequest(m, "fxid", reqs, req)

SuspendRemove(m, reqs, req) ==
    RemoveUndoRequest(RemoveUndoRequest(m, "fxid", reqs, req), "size", reqs, req)

SuspendPreparedUndoRequest(fxid) ==
    /\ Live
    /\ phase = "recovery"
    /\ LET req == FindUndoRequest(Cur, all_requests, fxid)
       IN  /\ req # NULL
           /\ all_requests[req].d.size # 0
           /\ SetTrees(SuspendRemove(Cur, all_requests, req))
           /\ owner' = [owner EXCEPT ![req] = "xact"]
    /\ UNCHANGED <<all_requests, first_free_request, utilization, source,
                   oldest_fxid_valid, oldest_fxid, now, handed, used, phase, restarts>>

(***************************************************************************)
(* UndoRequestManagerOldestFXID                                            *)
(***************************************************************************)
\* the loop over all_requests, from request i on
RECURSIVE OldestFXIDLoop(_, _)
OldestFXIDLoop(i, result) ==
    IF i > Capacity THEN result
    ELSE IF FullTransactionIdIsValid(all_requests[i].d.fxid)
            /\ (~FullTransactionIdIsValid(result)
                \/ FullTransactionIdPrecedes(all_requests[i].d.fxid, result))
    THEN OldestFXIDLoop(i + 1, all_requests[i].d.fxid)
    ELSE OldestFXIDLoop(i + 1, result)

\* what the function returns
OldestFXID ==
    IF oldest_fxid_valid THEN oldest_fxid
    ELSE OldestFXIDLoop(1, InvalidFullTransactionId)

UndoRequestManagerOldestFXID ==
    /\ Live
    /\ oldest_fxid' = OldestFXID
    /\ oldest_fxid_valid' = TRUE
    /\ UNCHANGED <<all_requests, first_free_request, free_request_nodes, utilization,
                   source, requests_by_fxid, requests_by_size, requests_by_retry_time,
                   now, owner, handed, used, phase, restarts, error>>

(***************************************************************************)
(* The clock.                                                              *)
(***************************************************************************)
Tick ==
    /\ Live
    /\ now < MaxTicks * TickSeconds * 1000000
    /\ now' = now + TickSeconds * 1000000
    /\ UNCHANGED <<all_requests, first_free_request, free_request_nodes, utilization,
                   source, requests_by_fxid, requests_by_size, requests_by_retry_time,
                   oldest_fxid_valid, oldest_fxid, owner, handed, used, phase, restarts,
                   error>>

Next ==
    \/ \E fxid \in Fxids : RegisterUndoRequest(fxid, DbidOf(fxid)) /\ UNCHANGED lock
    \/ \E req \in Slots :
           FinalizeUndoRequest(req, SizeOf(all_requests[req].d.fxid),
                               Locations(SizeOf(all_requests[req].d.fxid))) /\ UNCHANGED lock
    \/ \E req \in Slots : UnregisterByHolder(req) /\ UNCHANGED lock
    \/ \E req \in Slots, force \in BOOLEAN : PerformUndoInBackground(req, force) /\ UNCHANGED lock
    \/ \E dbid \in {InvalidOid} \cup Dbids, minimum_runtime_reached \in BOOLEAN :
           GetNextUndoRequest(dbid, minimum_runtime_reached) /\ UNCHANGED lock
    \/ \E req \in Slots : RescheduleUndoRequest(req) /\ UNCHANGED lock
    \/ \E input \in RestoreInputs :
           RestoreUndoRequestData(input.nbytes, input.darray) /\ UNCHANGED lock
    \/ Restart /\ UNCHANGED lock
    \/ \E fxid \in Fxids : SuspendPreparedUndoRequest(fxid) /\ UNCHANGED lock
    \/ UndoRequestManagerOldestFXID /\ UNCHANGED lock
    \/ Tick /\ UNCHANGED lock

Spec == Init /\ [][Next]_vars

(***************************************************************************)
(* One run of the server while the clock stands still: the functions       *)
(* between a startup, which may restore what it finds on disk, and the     *)
(* next shutdown.  No request that has been rescheduled comes due.         *)
(***************************************************************************)
NextSingleRun ==
    \/ \E fxid \in Fxids : RegisterUndoRequest(fxid, DbidOf(fxid)) /\ UNCHANGED lock
    \/ \E req \in Slots :
           FinalizeUndoRequest(req, SizeOf(all_requests[req].d.fxid),
                               Locations(SizeOf(all_requests[req].d.fxid))) /\ UNCHANGED lock
    \/ \E req \in Slots : UnregisterByHolder(req) /\ UNCHANGED lock
    \/ \E req \in Slots, force \in BOOLEAN : PerformUndoInBackground(req, force) /\ UNCHANGED lock
    \/ \E dbid \in {InvalidOid} \cup Dbids, minimum_runtime_reached \in BOOLEAN :
           GetNextUndoRequest(dbid, minimum_runtime_reached) /\ UNCHANGED lock
    \/ \E req \in Slots : RescheduleUndoRequest(req) /\ UNCHANGED lock
    \/ \E input \in RestoreInputs :
           RestoreUndoRequestData(input.nbytes, input.darray) /\ UNCHANGED lock
    \/ \E fxid \in Fxids : SuspendPreparedUndoRequest(fxid) /\ UNCHANGED lock
    \/ UndoRequestManagerOldestFXID /\ UNCHANGED lock

SpecSingleRun == Init /\ [][NextSingleRun]_vars

(***************************************************************************)
(* Runs of the server, with the shutdowns and restarts between them, while *)
(* the clock stands still.                                                 *)
(***************************************************************************)
NextClockStopped == NextSingleRun \/ (Restart /\ UNCHANGED lock)

SpecClockStopped == Init /\ [][NextClockStopped]_vars

(***************************************************************************)
(* One run of the server while time passes.                                *)
(***************************************************************************)
NextClockRunning == NextSingleRun \/ (Tick /\ UNCHANGED lock)

SpecClockRunning == Init /\ [][NextClockRunning]_vars

(***************************************************************************)
(* UnregisterUndoRequest accepts a LISTED request as well.  In Spec the    *)
(* backend that holds a request unregisters it, as the callers the file's  *)
(* comments describe do; here any backend may unregister any request that  *)
(* is not FREE.                                                            *)
(***************************************************************************)
UnregisterListed == \E req \in Listed : UnregisterUndoRequest(req)

NextAnyCaller == NextClockStopped \/ (UnregisterListed /\ UNCHANGED lock)

SpecAnyCaller == Init /\ [][NextAnyCaller]_vars

(***************************************************************************)
(* Spec has as many transactions as the manager has requests.  Here one    *)
(* more transaction begins while every request is in use.                  *)
(***************************************************************************)
NextAtCapacity == NextSingleRun \/ (RegisterAtCapacity /\ UNCHANGED lock)

SpecAtCapacity == Init /\ [][NextAtCapacity]_vars

(***************************************************************************)
(* In Spec every RegisterUndoRequest is given an fxid that no earlier call *)
(* was given, and the records RestoreUndoRequestData is given have         *)
(* different fxids.  Here RegisterUndoRequest may be given an fxid again,  *)
(* and the data restored may hold one record twice; the server is not      *)
(* restarted, and no undo fails.                                           *)
(***************************************************************************)
NextAnyFxid ==
    \/ RegisterAnyFxid /\ UNCHANGED lock
    \/ \E req \in Slots :
           FinalizeUndoRequest(req, SizeOf(all_requests[req].d.fxid),
                               Locations(SizeOf(all_requests[req].d.fxid))) /\ UNCHANGED lock
    \/ \E req \in Slots : UnregisterByHolder(req) /\ UNCHANGED lock
    \/ \E req \in Slots, force \in BOOLEAN : PerformUndoInBackground(req, force) /\ UNCHANGED lock
    \/ \E dbid \in {InvalidOid} \cup Dbids, minimum_runtime_reached \in BOOLEAN :
           GetNextUndoRequest(dbid, minimum_runtime_reached) /\ UNCHANGED lock
    \/ \E input \in RestoreInputs :
           RestoreUndoRequestData(input.nbytes, input.darray) /\ UNCHANGED lock
    \/ RestoreSameFxidTwice /\ UNCHANGED lock

SpecAnyFxid == Init /\ [][NextAnyFxid]_vars

(***************************************************************************)
(* In the specifications above a function runs from its LWLockAcquire to   *)
(* its LWLockRelease in one step, and the lock is free between the steps.  *)
(* Here two backends call the functions, and LWLockAcquire is a step of    *)
(* its own: a backend that has the lock runs the rest of its function and  *)
(* returns, while the other backend may call what takes no lock.  The      *)
(* server is not restarted and the clock stands still.                     *)
(***************************************************************************)
Backends == 1..MaxBackends

\* the functions that call LWLockAcquire(urm->lock, LW_EXCLUSIVE)
LockedFunctions ==
    {"RegisterUndoRequest", "UnregisterUndoRequest", "PerformUndoInBackground",
     "GetNextUndoRequest", "RescheduleUndoRequest", "SerializeUndoRequestData",
     "RestoreUndoRequestData", "SuspendPreparedUndoRequest",
     "UndoRequestManagerOldestFXID"}

\* SerializeUndoRequestData when nothing restores what it returns
SerializeOnly ==
    /\ Live
    /\ phase = "running"
    /\ \E saved \in SerializeUndoRequestData : error' = saved.err
    /\ UNCHANGED <<all_requests, first_free_request, free_request_nodes, utilization,
                   source, requests_by_fxid, requests_by_size, requests_by_retry_time,
                   oldest_fxid_valid, oldest_fxid, now, owner, handed, used, phase,
                   restarts>>

\* RestoreUndoRequestData of data that passes the checks it makes before it
\* takes the lock, and of data that does not
RestoreChecked ==
    \E input \in RestoreInputs :
        /\ RestoreError(input.nbytes) = "none"
        /\ RestoreUndoRequestData(input.nbytes, input.darray)

RestoreRejected ==
    \E input \in RestoreInputs :
        /\ RestoreError(input.nbytes) # "none"
        /\ RestoreUndoRequestData(input.nbytes, input.darray)

\* what the function f does from its LWLockAcquire on
Body(f) ==
    CASE f = "RegisterUndoRequest" ->
             \/ \E fxid \in Fxids : RegisterUndoRequest(fxid, DbidOf(fxid))
             \/ RegisterAtCapacity
      [] f = "UnregisterUndoRequest" -> \E req \in Slots : UnregisterByHolder(req)
      [] f = "PerformUndoInBackground" ->
             \E req \in Slots, force \in BOOLEAN : PerformUndoInBackground(req, force)
      [] f = "GetNextUndoRequest" ->
             \E dbid \in {InvalidOid} \cup Dbids, minimum_runtime_reached \in BOOLEAN :
                 GetNextUndoRequest(dbid, minimum_runtime_reached)
      [] f = "RescheduleUndoRequest" -> \E req \in Slots : RescheduleUndoRequest(req)
      [] f = "SerializeUndoRequestData" -> SerializeOnly
      [] f = "RestoreUndoRequestData" -> RestoreChecked
      [] f = "SuspendPreparedUndoRequest" ->
             \E fxid \in Fxids : SuspendPreparedUndoRequest(fxid)
      [] f = "UndoRequestManagerOldestFXID" -> UndoRequestManagerOldestFXID

\* when a backend calls f: it holds the request it passes, and the startup
\* code calls what belongs to its phase
Callable(f) ==
    CASE f = "RegisterUndoRequest" ->
             \/ Fxids \ used # {}
             \/ first_free_request = <<>> /\ MaxFxid + 1 \notin used
      [] f = "UnregisterUndoRequest" -> \E req \in NonFree : Held(req)
      [] f = "PerformUndoInBackground" ->
             \E req \in Slots : owner[req] = "xact" /\ Unlisted(req)
      [] f = "GetNextUndoRequest" -> TRUE
      [] f = "RescheduleUndoRequest" ->
             \E req \in Slots : (owner[req] = "undo" \/ req \in handed) /\ Unlisted(req)
      [] f = "SerializeUndoRequestData" -> phase = "running"
      [] f = "RestoreUndoRequestData" -> phase = "fresh"
      [] f = "SuspendPreparedUndoRequest" ->
             /\ phase = "recovery"
             /\ \E fxid \in Fxids :
                    LET req == FindUndoRequest(Cur, all_requests, fxid)
                    IN  req # NULL /\ all_requests[req].d.size # 0
      [] f = "UndoRequestManagerOldestFXID" -> TRUE

\* lwlock.c: the lock is granted in exclusive mode when no backend holds it
LWLockAcquire(b, f) ==
    /\ Live
    /\ lock = {}
    /\ Callable(f)
    /\ lock' = {<<b, f>>}
    /\ UNCHANGED <<all_requests, first_free_request, free_request_nodes, utilization,
                   source, requests_by_fxid, requests_by_size, requests_by_retry_time,
                   oldest_fxid_valid, oldest_fxid, now, owner, handed, used, phase,
                   restarts, error>>

\* RegisterUndoRequest with its LWLockRelease inside "if (req != NULL)"
LWLockReleaseUnlessNull(l, b, f) ==
    IF f = "RegisterUndoRequest" /\ RegisterResult = NULL THEN l ELSE l \ {<<b, f>>}

\* the lock after the LWLockRelease that comes before each return
LWLockRelease(l, b, f) == l \ {<<b, f>>}

\* backend b, which has the lock, runs f to its return; an ERROR raised
\* under the lock leaves the lock as it is
Locked(b, f) ==
    /\ <<b, f>> \in lock
    /\ Body(f)
    /\ lock' = IF error' # "none" /\ LockHeldWhenRaised(error')
               THEN lock
               ELSE LWLockRelease(lock, b, f)

\* backend b, which is in no function that has the lock, calls what takes
\* no lock
Unlocked(b) ==
    /\ \A f \in LockedFunctions : <<b, f>> \notin lock
    /\ \/ \E req \in Slots :
              FinalizeUndoRequest(req, SizeOf(all_requests[req].d.fxid),
                                  Locations(SizeOf(all_requests[req].d.fxid)))
       \/ RestoreRejected
    /\ UNCHANGED lock

NextLocks ==
    \/ \E b \in Backends, f \in LockedFunctions : LWLockAcquire(b, f)
    \/ \E b \in Backends, f \in LockedFunctions : Locked(b, f)
    \/ \E b \in Backends : Unlocked(b)

SpecLocks == Init /\ [][NextLocks]_vars

(***************************************************************************)
(* What the properties below speak of.                                     *)
(***************************************************************************)
InTree(rbt, req) == req \in Range(rbt)

IsFree(req) == req \in Range(first_free_request)

\* the oldest FXID among the requests that are not FREE, which exist
MinNonFreeFxid ==
    CHOOSE f \in {all_requests[r].d.fxid : r \in NonFree} :
        \A r \in NonFree : f <= all_requests[r].d.fxid

\* the persistent payloads of the requests a tree holds, in walk order
Payloads(rbt) == [k \in 1..Len(rbt) |-> all_requests[rbt[k]].d]

NextArgs == ({InvalidOid} \cup Dbids) \X BOOLEAN

(***************************************************************************)
(* C1: UnregisterUndoRequest of a request that is not FREE raises no       *)
(* error, and afterwards the request is in no RBTree, is on the free list, *)
(* utilization is one lower, and every other request is in the RBTrees it  *)
(* was in before.                                                          *)
(***************************************************************************)
C1_UnregisterNeverFails ==
    [][\A req \in Slots :
          UnregisterUndoRequest(req) =>
              /\ error' = "none"
              /\ ~InTree(requests_by_fxid', req)
              /\ ~InTree(requests_by_size', req)
              /\ ~InTree(requests_by_retry_time', req)
              /\ req \in Range(first_free_request')
              /\ utilization' = utilization - 1
              /\ \A o \in Slots \ {req} :
                    /\ InTree(requests_by_fxid', o) = InTree(requests_by_fxid, o)
                    /\ InTree(requests_by_size', o) = InTree(requests_by_size, o)
                    /\ InTree(requests_by_retry_time', o)
                           = InTree(requests_by_retry_time, o)]_vars

(***************************************************************************)
(* C2: whatever its arguments, GetNextUndoRequest does not return a        *)
(* request that is in requests_by_retry_time with a retry time later than  *)
(* now.                                                                    *)
(***************************************************************************)
C2_NoRequestBeforeItsRetryTime ==
    error = "none" =>
        \A a \in NextArgs :
            LET req == GetNextChoice(a[1], a[2]).req
            IN  req # NULL =>
                    ~(InTree(requests_by_retry_time, req)
                      /\ all_requests[req].retry_time > now)

(***************************************************************************)
(* C3: a request GetNextUndoRequest has returned is in no RBTree while its *)
(* worker holds it, and no call of GetNextUndoRequest, whatever its        *)
(* arguments, returns a request a worker still holds: no two workers are   *)
(* given the same request.                                                 *)
(***************************************************************************)
C3_NoRequestGivenToTwoWorkers ==
    /\ \A req \in handed : req \notin Listed
    /\ error = "none" =>
           \A a \in NextArgs : GetNextChoice(a[1], a[2]).req \notin handed

\* two workers hold a request each while a third request is LISTED
C3_Witness ==
    /\ Cardinality(handed) = 2
    /\ requests_by_fxid # <<>>

(***************************************************************************)
(* C4: after a shutdown and restart the LISTED requests have the payloads  *)
(* the LISTED requests had before, all with retry_time DT_NOBEGIN and all  *)
(* in requests_by_fxid and requests_by_size.                               *)
(***************************************************************************)
C4_SerializeRestoreRoundTrip ==
    [][Restart =>
          /\ error' = "none"
          /\ Len(requests_by_fxid') = SerializeCount
          /\ Range(requests_by_size') = Range(requests_by_fxid')
          /\ requests_by_retry_time' = <<>>
          /\ {all_requests'[r].d : r \in Range(requests_by_fxid')}
                 = {all_requests[r].d : r \in Listed}
          /\ \A r \in Range(requests_by_fxid') :
                 all_requests'[r].retry_time = DT_NOBEGIN]_vars

(***************************************************************************)
(* C5: SerializeUndoRequestData ends without error and returns one record  *)
(* per LISTED request: the payloads of requests_by_fxid in its order, then *)
(* those of requests_by_retry_time in its order.                           *)
(***************************************************************************)
C5_SerializeEmitsEveryListedRequest ==
    error = "none" =>
        \A saved \in SerializeUndoRequestData :
            /\ saved.err = "none"
            /\ saved.nbytes = UndoRequestDataSize * SerializeCount
            /\ saved.darray = Payloads(requests_by_fxid)
                                  \o Payloads(requests_by_retry_time)

(***************************************************************************)
(* C6: while some request is not FREE, UndoRequestManagerOldestFXID        *)
(* returns the smallest fxid among the requests that are not FREE.         *)
(***************************************************************************)
C6_OldestFxidIsMinOverNonFree ==
    (error = "none" /\ NonFree # {}) => OldestFXID = MinNonFreeFxid

(***************************************************************************)
(* C7: while every request is FREE, UndoRequestManagerOldestFXID returns   *)
(* InvalidFullTransactionId.                                               *)
(***************************************************************************)
C7_OldestFxidInvalidWhenEmpty ==
    (error = "none" /\ NonFree = {}) =>
        (utilization = 0 /\ OldestFXID = InvalidFullTransactionId)

(***************************************************************************)
(* C8: utilization is the number of requests that are not FREE, and lies   *)
(* between 0 and the capacity.                                             *)
(***************************************************************************)
C8_UtilizationCountsNonFree ==
    /\ utilization = Cardinality(NonFree)
    /\ 0 <= utilization
    /\ utilization <= Capacity

\* three requests were registered and the second was unregistered
C8_Witness ==
    /\ utilization = 2
    /\ first_free_request = <<2>>

(***************************************************************************)
(* C9: a LISTED request whose retry_time is DT_NOBEGIN is in               *)
(* requests_by_fxid and requests_by_size and not in                        *)
(* requests_by_retry_time; one whose retry_time is set is in               *)
(* requests_by_retry_time and in neither of the other two.                 *)
(***************************************************************************)
C9_ListedInExactlyOneGroup ==
    \A r \in Listed :
        IF all_requests[r].retry_time = DT_NOBEGIN
        THEN /\ InTree(requests_by_fxid, r)
             /\ InTree(requests_by_size, r)
             /\ ~InTree(requests_by_retry_time, r)
        ELSE /\ InTree(requests_by_retry_time, r)
             /\ ~InTree(requests_by_fxid, r)
             /\ ~InTree(requests_by_size, r)

\* one request waits for its retry time while another has never failed
C9_Witness ==
    /\ requests_by_retry_time # <<>>
    /\ requests_by_fxid # <<>>
    /\ requests_by_size # <<>>

(***************************************************************************)
(* C10: a request is FREE exactly when its fxid is                         *)
(* InvalidFullTransactionId.                                               *)
(***************************************************************************)
C10_FreeIffFxidInvalid ==
    \A r \in Slots :
        IsFree(r) <=> ~FullTransactionIdIsValid(all_requests[r].d.fxid)

(***************************************************************************)
(* C11: RegisterUndoRequest raises no error; when utilization equals the   *)
(* capacity it returns NULL and leaves utilization, the free list, the     *)
(* requests, the RBTrees, the cursor and the oldest-FXID cache as they     *)
(* were; when utilization is below the capacity it returns a request,      *)
(* which then belongs to the transaction; never are more than Capacity     *)
(* requests in use.                                                        *)
(***************************************************************************)
C11_RegisterReturnsNullAtCapacity ==
    [][\A fxid \in Fxids \cup {MaxFxid + 1} :
          RegisterUndoRequest(fxid, DbidOf(fxid)) =>
              /\ error' = "none"
              /\ Cardinality(NonFree') <= Capacity
              /\ IF utilization = Capacity
                 THEN /\ RegisterResult = NULL
                      /\ UNCHANGED <<utilization, first_free_request, all_requests,
                                     requests_by_fxid, requests_by_size,
                                     requests_by_retry_time, free_request_nodes,
                                     source, oldest_fxid_valid, oldest_fxid>>
                 ELSE /\ utilization < Capacity
                      /\ RegisterResult # NULL
                      /\ RegisterResult \in NonFree'
                      /\ RegisterResult \notin NonFree
                      /\ all_requests'[RegisterResult].d.fxid = fxid]_vars

\* a transaction asked for a request while all were in use, and the
\* manager goes on
C11_Witness ==
    /\ (MaxFxid + 1) \in used
    /\ utilization = Capacity
    /\ first_free_request = <<>>
    /\ error = "none"

(***************************************************************************)
(* C12: the free list holds each request at most once and its length plus  *)
(* utilization is the capacity; a RegisterUndoRequest that returns a       *)
(* request takes exactly that request off the head of the free list and    *)
(* raises utilization by one, and an UnregisterUndoRequest puts exactly    *)
(* its request back at the head and lowers utilization by one, so that N   *)
(* registrations take N requests off the list and a registration followed  *)
(* by the unregistration of its request restores both.                     *)
(***************************************************************************)
C12_FreeSlotAccounting ==
    /\ [](/\ Len(first_free_request) + utilization = Capacity
          /\ Cardinality(Range(first_free_request)) = Len(first_free_request))
    /\ [][\A fxid \in Fxids :
            (RegisterUndoRequest(fxid, DbidOf(fxid)) /\ RegisterResult # NULL) =>
                /\ first_free_request = <<RegisterResult>> \o first_free_request'
                /\ utilization' = utilization + 1]_vars
    /\ [][\A req \in Slots :
            UnregisterUndoRequest(req) =>
                /\ first_free_request' = <<req>> \o first_free_request
                /\ utilization' = utilization - 1]_vars

\* two registrations without an unregistration, and a third whose request
\* was unregistered at once: it is back at the head of the free list
C12_Witness ==
    /\ restarts = 0
    /\ Cardinality(used) = 3
    /\ utilization = 2
    /\ first_free_request = <<3>>
    /\ all_requests[3].d.fxid \in used
    /\ \A r \in {1, 2} : owner[r] = "xact" /\ all_requests[r].d.size = 0

(***************************************************************************)
(* C13: PerformUndoInBackground on an UNLISTED request with a valid start  *)
(* location returns true exactly when force is true or utilization, which  *)
(* counts the request, is at most the soft limit.  When it returns true    *)
(* no error was raised and the request is in requests_by_fxid and          *)
(* requests_by_size and not in requests_by_retry_time; when it returns     *)
(* false the request is still UNLISTED and the RBTrees, utilization and    *)
(* the free list are as they were.                                         *)
(***************************************************************************)
C13_BackgroundIffForcedOrUnderSoftLimit ==
    [][\A req \in Slots, force \in BOOLEAN :
          (PerformUndoInBackground(req, force) /\ ~NoStartLocation(req)) =>
              /\ PerformUndoInBackgroundResult(req, force)
                     = (force \/ utilization <= SoftLimit)
              /\ IF PerformUndoInBackgroundResult(req, force)
                 THEN /\ error' = "none"
                      /\ InTree(requests_by_fxid', req)
                      /\ InTree(requests_by_size', req)
                      /\ ~InTree(requests_by_retry_time', req)
                 ELSE /\ Unlisted(req)'
                      /\ UNCHANGED <<requests_by_fxid, requests_by_size,
                                     requests_by_retry_time, utilization,
                                     first_free_request>>]_vars

\* the first transaction's request went to the background under the soft
\* limit, the second's was refused above it, the third's was forced
C13_Witness ==
    /\ restarts = 0
    /\ phase = "running"
    /\ utilization = 3
    /\ utilization > SoftLimit
    /\ owner[2] = "undo"
    /\ Range(requests_by_fxid) = {1, 3}
    /\ Range(requests_by_size) = {1, 3}
    /\ error = "none"

C15_NodeBudgetSuffices ==
    /\ error # "no free UndoRequestNode"
    /\ error = "none" =>
           /\ free_request_nodes >= 0
           /\ Len(requests_by_fxid) + Len(requests_by_size)
                  + Len(requests_by_retry_time) + free_request_nodes = 2 * Capacity
           /\ \A r \in Slots :
                  Cardinality({t \in {"fxid", "size", "retry"} : InTree(Cur[t], r)}) <= 2

\* every node is in use: all requests are in requests_by_fxid and
\* requests_by_size
C15_Witness ==
    /\ free_request_nodes = 0
    /\ Len(requests_by_fxid) = Capacity
    /\ Len(requests_by_size) = Capacity
    /\ error = "none"

(***************************************************************************)
(* C16: RescheduleUndoRequest on an UNLISTED request raises no error and   *)
(* sets retry_time to 10 seconds from now when retry_time was DT_NOBEGIN,  *)
(* to 30 seconds from now otherwise; afterwards the request is in          *)
(* requests_by_retry_time and in no other RBTree.  A request that its      *)
(* transaction holds, newly registered or suspended after a restore, has   *)
(* not failed yet: its retry_time is DT_NOBEGIN.                           *)
(***************************************************************************)
C16_RetryAfterTenThenThirtySeconds ==
    /\ [](error = "none" =>
            \A r \in NonFree :
                all_requests[r].retry_time # DT_NOBEGIN => owner[r] # "xact")
    /\ [][\A req \in Slots :
            RescheduleUndoRequest(req) =>
                /\ error' = "none"
                /\ all_requests'[req].retry_time =
                       IF all_requests[req].retry_time = DT_NOBEGIN
                       THEN now + 10 * 1000000
                       ELSE now + 30 * 1000000
                /\ all_requests'[req].d = all_requests[req].d
                /\ InTree(requests_by_retry_time', req)
                /\ ~InTree(requests_by_fxid', req)
                /\ ~InTree(requests_by_size', req)]_vars

\* a request failed, was taken again after its retry time had passed, and
\* failed once more
C16_Witness ==
    /\ now > 0
    /\ \E r \in Range(requests_by_retry_time) :
           all_requests[r].retry_time = now + 30 * 1000000
    /\ error = "none"

(***************************************************************************)
(* C17: when the only LISTED request is one in requests_by_retry_time,     *)
(* GetNextUndoRequest without a database returns NULL while now is before  *)
(* the request's retry_time and returns the request when now has reached   *)
(* it, wherever the cursor stands and whatever minimum_runtime_reached is. *)
(***************************************************************************)
C17_OnlyFailedRequestWaitsForRetryTime ==
    error = "none" =>
        \A r \in Slots :
            (Listed = {r} /\ requests_by_retry_time = <<r>>) =>
                \A minimum_runtime_reached \in BOOLEAN :
                    GetNextChoice(InvalidOid, minimum_runtime_reached).req =
                        IF now < all_requests[r].retry_time THEN NULL ELSE r

\* the only request failed, waited in requests_by_retry_time, and was
\* handed out again when its retry time had come
C17_Witness ==
    /\ utilization = 1
    /\ Listed = {}
    /\ \E r \in handed :
           /\ all_requests[r].retry_time # DT_NOBEGIN
           /\ all_requests[r].retry_time <= now
    /\ error = "none"

(***************************************************************************)
(* C18: RestoreUndoRequestData of data whose size is not a multiple of     *)
(* sizeof(UndoRequestData), or that holds more requests than the capacity, *)
(* raises an error, without the lock held, and leaves the requests, the    *)
(* free lists, the RBTrees, utilization, the cursor and the oldest-FXID    *)
(* cache as they were.                                                     *)
(***************************************************************************)
C18_RestoreRejectsMalformedData ==
    [][\A input \in RestoreInputs :
          (/\ RestoreUndoRequestData(input.nbytes, input.darray)
           /\ \/ input.nbytes % UndoRequestDataSize # 0
              \/ input.nbytes \div UndoRequestDataSize > Capacity) =>
              /\ error' \in {"undo request data size is corrupt",
                              "too many undo requests"}
              /\ ~LockHeldWhenRaised(error')
              /\ UNCHANGED <<all_requests, first_free_request, free_request_nodes,
                             utilization, requests_by_fxid, requests_by_size,
                             requests_by_retry_time, source, oldest_fxid_valid,
                             oldest_fxid>>]_vars

\* the data held one request more than the manager has
C18_Witness ==
    /\ error = "too many undo requests"
    /\ utilization = 0
    /\ Len(first_free_request) = Capacity
    /\ free_request_nodes = 2 * Capacity

(***************************************************************************)
(* C19: RestoreUndoRequestData of N <= Capacity records with distinct      *)
(* fxids into a newly initialized manager raises no error and leaves N     *)
(* LISTED requests whose payloads are the records; each has retry_time     *)
(* DT_NOBEGIN and is in requests_by_fxid and requests_by_size and not in   *)
(* requests_by_retry_time; requests_by_fxid is in ascending order of       *)
(* fxid; utilization is N and Capacity - N requests are on the free list.  *)
(***************************************************************************)
C19_RestoreListsEveryRecord ==
    (Live /\ phase = "fresh") =>
        \A input \in RestoreInputs :
            (/\ input.nbytes = UndoRequestDataSize * Len(input.darray)
             /\ Len(input.darray) <= Capacity) =>
                LET N == Len(input.darray)
                    r == RestoreLoop(Initialized, input.darray,
                                     input.nbytes \div UndoRequestDataSize, 1)
                    listed == Range(r.m.fxid) \cup Range(r.m.size)
                                  \cup Range(r.m.retry)
                IN  /\ RestoreError(input.nbytes) = "none"
                    /\ r.m.err = "none"
                    /\ Cardinality(listed) = N
                    /\ Len(r.m.fxid) = N
                    /\ Len(r.m.size) = N
                    /\ r.m.retry = <<>>
                    /\ {r.reqs[q].d : q \in listed} = Range(input.darray)
                    /\ \A q \in listed :
                           /\ r.reqs[q].retry_time = DT_NOBEGIN
                           /\ InTree(r.m.fxid, q)
                           /\ InTree(r.m.size, q)
                    /\ \A i, j \in 1..N :
                           i < j => r.reqs[r.m.fxid[i]].d.fxid
                                        < r.reqs[r.m.fxid[j]].d.fxid
                    /\ r.util = N
                    /\ Len(r.free) = Capacity - N
                    /\ Range(r.free) = Slots \ listed

\* as many records as the manager has requests were restored
C19_Witness ==
    /\ phase = "recovery"
    /\ restarts = 0
    /\ utilization = Capacity
    /\ first_free_request = <<>>
    /\ Len(requests_by_fxid) = Capacity
    /\ Len(requests_by_size) = Capacity
    /\ error = "none"

(***************************************************************************)
(* C20: after RestoreUndoRequestData has restored one or more requests     *)
(* into a newly initialized manager, UndoRequestManagerOldestFXID returns  *)
(* the smallest fxid among the restored requests.                          *)
(***************************************************************************)
C20_OldestFxidAfterRestore ==
    (/\ phase = "recovery"
     /\ restarts = 0
     /\ error = "none"
     /\ utilization >= 1) =>
        /\ FullTransactionIdIsValid(OldestFXID)
        /\ \A r \in NonFree : OldestFXID <= all_requests[r].d.fxid
        /\ \E r \in NonFree : OldestFXID = all_requests[r].d.fxid

(***************************************************************************)
(* C21: a call of GetNextUndoRequest without a database filter takes its   *)
(* winner from the RBTree the rotation points at, and moves the rotation   *)
(* on by exactly one source, whenever the leftmost request of that RBTree  *)
(* exists and, in the retry time RBTree, has a retry time that is not in   *)
(* the future.  The rotation visits the fxid, size and retry time RBTrees  *)
(* in this order and comes back after three, so three successive such      *)
(* calls take their winners from three different RBTrees.                  *)
(***************************************************************************)
\* the order of the rotation, written out
CursorOrder == <<"fxid", "size", "retry">>

CursorIndex(src) == CHOOSE i \in 1..3 : CursorOrder[i] = src

C21_SuccessiveCallsRotateSources ==
    \A mrr \in BOOLEAN :
        LET first == rbt_leftmost(SourceTree(source))
            due == \/ source # "retry"
                   \/ all_requests[first].retry_time <= now
            c == GetNextChoice(InvalidOid, mrr)
            m == GetNextRemove(Cur, all_requests, c.req)
        IN  (first # NULL /\ due) =>
                /\ c.req = first
                /\ c.from = source
                /\ m.err = "none"
                /\ first \notin Range(m.fxid) \cup Range(m.size)
                                    \cup Range(m.retry)
                /\ c.source = CursorOrder[(CursorIndex(source) % 3) + 1]

\* three calls in a row have taken the three requests, one from each
\* RBTree, and the rotation is back where it started
C21_Witness ==
    /\ Cardinality(handed) = 3
    /\ source = "fxid"
    /\ Cardinality({r \in handed : all_requests[r].retry_time # DT_NOBEGIN}) = 1
    /\ Cardinality({r \in handed : all_requests[r].retry_time = DT_NOBEGIN}) = 2
    /\ requests_by_fxid = <<>>
    /\ requests_by_size = <<>>
    /\ requests_by_retry_time = <<>>
    /\ restarts = 0
    /\ error = "none"

ProbedAt(k) == CursorOrder[((CursorIndex(source) - 1 + k) % 3) + 1]

\* the leftmost request of the RBTree src can be taken whatever its database
LeftmostIsDue(src) ==
    LET node == rbt_leftmost(SourceTree(src))
    IN  /\ node # NULL
        /\ src = "retry" => all_requests[node].retry_time <= now

C23_DatabaseFilter ==
    /\ \A mrr \in BOOLEAN :
           LET c == GetNextChoice(InvalidOid, mrr)
           IN  /\ c.from # "scan"
               /\ c.req = NULL <=>
                      \A k \in 0..2 : ~LeftmostIsDue(ProbedAt(k))
               /\ \A k \in 0..2 :
                      (/\ LeftmostIsDue(ProbedAt(k))
                       /\ \A j \in 0..(k - 1) :
                              ~LeftmostIsDue(ProbedAt(j))) =>
                          /\ c.from = ProbedAt(k)
                          /\ c.req = rbt_leftmost(SourceTree(c.from))
    /\ \A args \in NextArgs :
           LET dbid == args[1]
               c == GetNextChoice(dbid, args[2])
           IN  (c.req # NULL /\ dbid # InvalidOid) =>
                   /\ c.req \in Listed
                   /\ all_requests[c.req].d.dbid = dbid

\* a call for database 2 has passed over the request of lowest fxid, which
\* is of database 1, and taken a request of database 2
C23_Witness ==
    /\ \E w \in handed :
           /\ handed = {w}
           /\ all_requests[w].d.dbid = 2
           /\ requests_by_fxid # <<>>
           /\ LET l == all_requests[rbt_leftmost(requests_by_fxid)]
              IN  /\ l.d.dbid = 1
                  /\ l.d.fxid < all_requests[w].d.fxid
    /\ phase = "running"
    /\ restarts = 0
    /\ error = "none"

(***************************************************************************)
(* C24: called with minimum_runtime_reached = true, GetNextUndoRequest     *)
(* does not search the RBTrees for a request of the database: it returns   *)
(* a request that was the leftmost one of requests_by_fxid,                *)
(* requests_by_size or requests_by_retry_time when it was called, or no    *)
(* request, even when a request of that database that is not leftmost is   *)
(* in an RBTree.                                                           *)
(***************************************************************************)
C24_NoSearchAfterMinimumRuntime ==
    \A dbid \in {InvalidOid} \cup Dbids :
        LET c == GetNextChoice(dbid, TRUE)
            leftmosts == {rbt_leftmost(SourceTree(CursorOrder[i])) : i \in 1..3}
                             \ {NULL}
        IN  /\ c.from # "scan"
            /\ c.req # NULL =>
                   /\ c.from \in {"fxid", "size", "retry"}
                   /\ SourceTree(c.from) # <<>>
                   /\ c.req = rbt_leftmost(SourceTree(c.from))
            /\ (\A l \in leftmosts : all_requests[l].d.dbid # dbid
                                         /\ dbid # InvalidOid) =>
                   c.req = NULL

\* a call for a database with minimum_runtime_reached = true finds nothing
\* although a request of that database, not a leftmost one, is in the
\* RBTrees and would be found with minimum_runtime_reached = false
C24_Witness ==
    /\ phase = "running"
    /\ handed = {}
    /\ \E dbid \in Dbids :
           /\ GetNextChoice(dbid, TRUE).req = NULL
           /\ GetNextChoice(dbid, FALSE).req # NULL
           /\ \E r \in Listed : all_requests[r].d.dbid = dbid
    /\ restarts = 0
    /\ error = "none"

(***************************************************************************)
(* C25: GetNextUndoRequest searches the RBTrees for a request of the       *)
(* database exactly when its three probes found no winner, at least one    *)
(* probe met a request of another database, and minimum_runtime_reached is *)
(* false.  The search walks requests_by_fxid, requests_by_size and         *)
(* requests_by_retry_time in order, one request of each in turn, passing   *)
(* over the walks that have ended, and returns the first request of the    *)
(* database it meets; it returns none only if no RBTree has a request of   *)
(* the database.                                                           *)
(***************************************************************************)
\* the steps of the walks: <<j, i>> is the j-th request of RBTree i
WalkSteps ==
    {p \in (1..Capacity) \X (1..3) : p[1] <= Len(SourceTree(CursorOrder[p[2]]))}

WalkRequest(p) == SourceTree(CursorOrder[p[2]])[p[1]]

\* step p comes before step q when the walks take turns
WalkBefore(p, q) == p[1] < q[1] \/ (p[1] = q[1] /\ p[2] < q[2])

C26_SuspendMakesUnlisted ==
    /\ [](\A args \in NextArgs :
             GetNextChoice(args[1], args[2]).req \in Listed \cup {NULL})
    /\ [][\A fxid \in Fxids, req \in Slots :
             (/\ req = FindUndoRequest(Cur, all_requests, fxid)
              /\ SuspendPreparedUndoRequest(fxid)) =>
                     /\ all_requests[req].d.fxid = fxid
                     /\ all_requests[req].retry_time = DT_NOBEGIN
                     /\ InTree(requests_by_fxid, req)
                     /\ InTree(requests_by_size, req)
                     /\ Unlisted(req)'
                     /\ ~IsFree(req)'
                     /\ utilization' = utilization
                     /\ first_free_request' = first_free_request
                     /\ all_requests' = all_requests
                     /\ \A r \in Slots \ {req} :
                            /\ InTree(requests_by_fxid', r) <=> InTree(requests_by_fxid, r)
                            /\ InTree(requests_by_size', r) <=> InTree(requests_by_size, r)
                     /\ requests_by_retry_time' = requests_by_retry_time
                     /\ \A args \in NextArgs :
                            GetNextChoice(args[1], args[2])'.req # req]_vars
    /\ [][\A r \in Slots :
             (/\ owner[r] = "xact"
              /\ Unlisted(r)
              /\ restarts' = restarts) =>
                 /\ r \notin handed'
                 /\ r \in Listed' =>
                        \E force \in BOOLEAN : PerformUndoInBackground(r, force)]_vars

\* one of two restored requests has been suspended
C26_Witness ==
    /\ phase = "recovery"
    /\ restarts = 0
    /\ utilization = 2
    /\ Len(requests_by_fxid) = 1
    /\ Len(requests_by_size) = 1
    /\ \E r \in NonFree :
           /\ owner[r] = "xact"
           /\ r \notin Listed
           /\ all_requests[r].d.size # 0
    /\ error = "none"

(***************************************************************************)
(* C27: in every state in which the program has not stopped, no two        *)
(* requests that are not FREE have the same fxid, whatever fxids           *)
(* RegisterUndoRequest and RestoreUndoRequestData are given.               *)
(***************************************************************************)
\* the fxids of the requests that are not FREE
HeldFxids == {all_requests[r].d.fxid : r \in NonFree}

C27_FxidUniqueAmongNonFree ==
    Live => \A r1, r2 \in NonFree :
                r1 # r2 => all_requests[r1].d.fxid # all_requests[r2].d.fxid

\* C27 as the code has it: RegisterUndoRequest does not look at the fxid it
\* is given.  A call that does not raise an error leaves the fxids of the
\* requests that are not FREE different from each other if they were,
\* unless it is a RegisterUndoRequest that is given the fxid of a request
\* that is not FREE.
C27_FxidUniqueUnlessGivenAgain ==
    [][(/\ Cardinality(HeldFxids) = Cardinality(NonFree)
        /\ error' = "none"
        /\ ~\E fxid \in HeldFxids :
               DoRegisterUndoRequest(fxid, DbidOf(fxid))) =>
           Cardinality(HeldFxids') = Cardinality(NonFree')]_vars

\* two transactions of different fxids have registered
C27_Witness ==
    /\ utilization = 2
    /\ HeldFxids = {1, MaxFxid}
    /\ \A r \in NonFree : owner[r] = "xact"
    /\ error = "none"

(***************************************************************************)
(* C28: GetNextUndoRequest reports through its output parameters: when it  *)
(* returns a request they hold the dbid, the fxid and the four locations   *)
(* of that request; when it finds no suitable request, *fxid is            *)
(* InvalidFullTransactionId and *out_dbid is InvalidOid.                   *)
(***************************************************************************)
C28_OutputParameters ==
    \A args \in NextArgs, prior \in {NoOut, StaleOut} :
        LET c == GetNextChoice(args[1], args[2])
            out == GetNextOut(prior, c)
        IN  /\ out.req = c.req
            /\ c.req # NULL =>
                   /\ out.out_dbid = all_requests[c.req].d.dbid
                   /\ out.fxid = all_requests[c.req].d.fxid
                   /\ out.start_location_logged =
                          all_requests[c.req].d.start_location_logged
                   /\ out.end_location_logged =
                          all_requests[c.req].d.end_location_logged
                   /\ out.start_location_unlogged =
                          all_requests[c.req].d.start_location_unlogged
                   /\ out.end_location_unlogged =
                          all_requests[c.req].d.end_location_unlogged
            /\ c.req = NULL =>
                   /\ out.fxid = InvalidFullTransactionId
                   /\ out.out_dbid = InvalidOid

(***************************************************************************)
(* C29: every LISTED request is finalized: its size is not 0, its logged   *)
(* or its unlogged undo has a valid start location, and an end location is *)
(* valid exactly when the start location of the same undo is; so           *)
(* GetNextUndoRequest never returns a request whose four locations are all *)
(* invalid.                                                                *)
(***************************************************************************)
C29_ListedIsFinalized ==
    Live =>
        /\ \A r \in Listed :
               LET d == all_requests[r].d
               IN  /\ d.size > 0
                   /\ \/ UndoRecPtrIsValid(d.start_location_logged)
                      \/ UndoRecPtrIsValid(d.start_location_unlogged)
                   /\ UndoRecPtrIsValid(d.end_location_logged)
                          <=> UndoRecPtrIsValid(d.start_location_logged)
                   /\ UndoRecPtrIsValid(d.end_location_unlogged)
                          <=> UndoRecPtrIsValid(d.start_location_unlogged)
        /\ \A args \in NextArgs :
               LET out == GetNextOut(NoOut, GetNextChoice(args[1], args[2]))
               IN  out.req # NULL =>
                       \/ UndoRecPtrIsValid(out.start_location_logged)
                       \/ UndoRecPtrIsValid(out.end_location_logged)
                       \/ UndoRecPtrIsValid(out.start_location_unlogged)
                       \/ UndoRecPtrIsValid(out.end_location_unlogged)

(***************************************************************************)
(* C30: a request whose key compares equal to that of a request already in *)
(* the RBTree is neither merged with it nor dropped without notice: the    *)
(* insertion raises the error of UndoRequestNodeCombine and leaves the     *)
(* RBTree as it was; and as long as the callers give every fxid once,      *)
(* UndoRequestNodeCombine is not called.                                   *)
(***************************************************************************)
C30_CombineIsAnErrorAndUnreachable ==
    /\ [](error # "undo requests should never need to be combined")
    /\ [][\A req \in Slots :
             (/\ PerformUndoInBackground(req, TRUE)
              /\ ~NoStartLocation(req)
              /\ \E r \in Range(requests_by_fxid) :
                     all_requests[r].d.fxid = all_requests[req].d.fxid) =>
                 /\ error' = "undo requests should never need to be combined"
                 /\ requests_by_fxid' = requests_by_fxid
                 /\ requests_by_size' = requests_by_size]_vars

(***************************************************************************)
(* C31: GetNextUndoRequest moves urm->source on by one at every probe, in  *)
(* the order fxid, size, retry time, fxid: after a call that found its     *)
(* winner in the RBTree S, urm->source names the successor of S; after a   *)
(* call whose three probes found no winner, urm->source is what it was     *)
(* before the call, also when the search for the database then finds a     *)
(* request.                                                                *)
(***************************************************************************)
C31_CursorAdvancesOncePerProbe ==
    \A args \in NextArgs :
        LET c == GetNextChoice(args[1], args[2])
        IN  /\ c.from \in {"fxid", "size", "retry", "none", "scan"}
            /\ c.from = "fxid" => c.source = "size"
            /\ c.from = "size" => c.source = "retry"
            /\ c.from = "retry" => c.source = "fxid"
            /\ c.from \in {"none", "scan"} => c.source = source
            /\ c.from \notin {"none", "scan"} =>
                   /\ c.req = rbt_leftmost(SourceTree(c.from))
                   /\ c.source = CursorOrder[(CursorIndex(c.from) % 3) + 1]
            /\ c.from = "none" => c.req = NULL

\* the first call has taken the request of lowest fxid from
\* requests_by_fxid, and urm->source names requests_by_size
C31_Witness ==
    /\ source = "size"
    /\ phase = "running"
    /\ \E w \in handed :
           /\ handed = {w}
           /\ all_requests[w].retry_time = DT_NOBEGIN
           /\ requests_by_fxid # <<>>
           /\ \A r \in Range(requests_by_fxid) :
                  all_requests[w].d.fxid < all_requests[r].d.fxid
    /\ requests_by_retry_time = <<>>
    /\ restarts = 0
    /\ error = "none"

(***************************************************************************)
(* C32: the rotation starves no RBTree.  While the leftmost request of     *)
(* requests_by_retry_time has a retry time that is not in the future, a    *)
(* call of GetNextUndoRequest without a database filter either returns a   *)
(* request of requests_by_retry_time or leaves urm->source nearer to it,   *)
(* and urm->source is at most two sources away: of three calls in a row at *)
(* least one takes its request from requests_by_retry_time, however many   *)
(* requests requests_by_fxid and requests_by_size hold.  In the same way,  *)
(* while requests_by_fxid is not empty such a call either returns a        *)
(* request of requests_by_fxid or requests_by_size or leaves urm->source   *)
(* at one of them.  No other function changes urm->source.                 *)
(***************************************************************************)
\* the probes a call makes before it comes to requests_by_retry_time
ProbesBeforeRetry(src) == 3 - CursorIndex(src)

C32_RotationStarvesNoSource ==
    [][/\ \A mrr \in BOOLEAN :
             LET c == GetNextChoice(InvalidOid, mrr)
             IN  (/\ source' # source \/ handed' # handed \/ phase' # phase
                  /\ GetNextUndoRequest(InvalidOid, mrr)) =>
                     /\ LeftmostIsDue("retry") =>
                            \/ /\ c.from = "retry"
                               /\ c.req = rbt_leftmost(requests_by_retry_time)
                               /\ c.req \in handed'
                            \/ /\ c.req \in handed'
                               /\ ProbesBeforeRetry(source') < ProbesBeforeRetry(source)
                               /\ LeftmostIsDue("retry")'
                     /\ requests_by_fxid # <<>> =>
                            \/ /\ c.from \in {"fxid", "size"}
                               /\ c.req \in handed'
                            \/ /\ c.from = "retry"
                               /\ source' = "fxid"
                               /\ requests_by_fxid' = requests_by_fxid
       /\ (source' # source /\ restarts' = restarts) =>
              \E args \in NextArgs : GetNextUndoRequest(args[1], args[2])]_vars

\* two calls in a row: the first took a request from requests_by_size, the
\* second the request whose retry time has come, while requests_by_fxid
\* still holds a request
C32_Witness ==
    /\ source = "fxid"
    /\ Cardinality(handed) = 2
    /\ \E w \in handed :
           /\ all_requests[w].retry_time # DT_NOBEGIN
           /\ all_requests[w].retry_time <= now
    /\ \E w \in handed : all_requests[w].retry_time = DT_NOBEGIN
    /\ requests_by_fxid # <<>>
    /\ requests_by_retry_time = <<>>
    /\ restarts = 0
    /\ error = "none"

(***************************************************************************)
(* C33: a request GetNextUndoRequest has returned is UNLISTED, and it      *)
(* stays out of every RBTree until the backend it was returned to calls    *)
(* RescheduleUndoRequest or UnregisterUndoRequest: no call of              *)
(* GetNextUndoRequest, no search for a database, no lookup of              *)
(* SuspendPreparedUndoRequest and no SerializeUndoRequestData meets it in  *)
(* between.  GetNextUndoRequest changes neither utilization nor the free   *)
(* list of requests.                                                       *)
(***************************************************************************)
C33_ReturnedRequestStaysUnlisted ==
    /\ []((Live /\ handed # {}) =>
             /\ \A r \in handed :
                    /\ Unlisted(r)
                    /\ FindUndoRequest(Cur, all_requests, all_requests[r].d.fxid) # r
                    /\ \A k \in 1..Len(SerializeSaved) :
                           SerializeSaved[k] # all_requests[r].d
             /\ \A args \in NextArgs :
                    GetNextChoice(args[1], args[2]).req \notin handed
             /\ \A dbid \in Dbids : FindUndoRequestForDatabase(dbid) \notin handed)
    /\ [][(handed' \ handed # {}) =>
              \A args \in NextArgs, w \in handed' \ handed :
                  GetNextUndoRequest(args[1], args[2]) =>
                      /\ w = GetNextChoice(args[1], args[2]).req
                      /\ w \in Listed
                      /\ handed' = handed \cup {w}
                      /\ Unlisted(w)'
                      /\ utilization' = utilization
                      /\ first_free_request' = first_free_request
                      /\ all_requests' = all_requests]_vars
    /\ [][\A r \in handed :
             (restarts' = restarts /\ error' = "none") =>
                 /\ r \in Listed' => RescheduleUndoRequest(r)
                 /\ IsFree(r)' => UnregisterByHolder(r)
                 /\ r \notin handed' =>
                        RescheduleUndoRequest(r) \/ UnregisterByHolder(r)]_vars

\* a request that failed before has been returned from
\* requests_by_retry_time, while other requests are LISTED
C33_Witness ==
    /\ \E w \in handed :
           /\ handed = {w}
           /\ all_requests[w].retry_time # DT_NOBEGIN
           /\ all_requests[w].retry_time <= now
           /\ w \in NonFree
           /\ w \notin Listed
    /\ Len(requests_by_fxid) = 2
    /\ utilization = Capacity
    /\ restarts = 0
    /\ error = "none"

(***************************************************************************)
(* C34: FinalizeUndoRequest, which takes no lock, races with no function   *)
(* that does.  A request a backend holds as UNLISTED is in no RBTree, so   *)
(* the functions that go by the RBTrees do not come to it; only its holder *)
(* writes its size and its locations; what FinalizeUndoRequest writes      *)
(* changes the result of no function another backend may be running        *)
(* (GetNextUndoRequest and its search, FindUndoRequest,                    *)
(* SerializeUndoRequestData, UndoRequestManagerOldestFXID, which reads     *)
(* only d.fxid, and RegisterUndoRequest); and FinalizeUndoRequest changes  *)
(* no RBTree, free list, utilization, source or oldest fxid.               *)
(***************************************************************************)
\* the fields FinalizeUndoRequest writes
FinalizedFields(d) ==
    <<d.size, d.start_location_logged, d.end_location_logged,
      d.start_location_unlogged, d.end_location_unlogged>>

C34_FinalizeRacesWithNothing ==
    /\ [](Live => \A r \in Slots : Held(r) => Unlisted(r))
    /\ [][\A r \in Slots :
             (/\ Held(r)
              /\ FinalizedFields(all_requests'[r].d) # FinalizedFields(all_requests[r].d)
              /\ restarts' = restarts) =>
                 /\ owner[r] = "xact"
                 /\ FinalizeUndoRequest(r, SizeOf(all_requests[r].d.fxid),
                                        Locations(SizeOf(all_requests[r].d.fxid)))]_vars
    /\ [][(all_requests' # all_requests) =>
             \A req \in Slots :
                 FinalizeUndoRequest(req, SizeOf(all_requests[req].d.fxid),
                                     Locations(SizeOf(all_requests[req].d.fxid))) =>
                     /\ Unlisted(req)
                     /\ \A r \in Slots \ {req} : all_requests'[r] = all_requests[r]
                     /\ all_requests'[req].d.fxid = all_requests[req].d.fxid
                     /\ all_requests'[req].d.dbid = all_requests[req].d.dbid
                     /\ all_requests'[req].retry_time = all_requests[req].retry_time
                     /\ UNCHANGED <<requests_by_fxid, requests_by_size,
                                    requests_by_retry_time, free_request_nodes,
                                    first_free_request, utilization, source,
                                    oldest_fxid_valid, oldest_fxid>>
                     /\ \A args \in NextArgs :
                            GetNextChoice(args[1], args[2])' = GetNextChoice(args[1], args[2])
                     /\ \A dbid \in Dbids :
                            FindUndoRequestForDatabase(dbid)' = FindUndoRequestForDatabase(dbid)
                     /\ \A fxid \in Fxids :
                            FindUndoRequest(Cur, all_requests, fxid)'
                                = FindUndoRequest(Cur, all_requests, fxid)
                     /\ SerializeUndoRequestData' = SerializeUndoRequestData
                     /\ OldestFXIDLoop(1, InvalidFullTransactionId)'
                            = OldestFXIDLoop(1, InvalidFullTransactionId)
                     /\ RegisterResult' = RegisterResult]_vars

\* a transaction has finalized its request while another request is LISTED
\* and the oldest fxid has to be computed by the loop over all_requests
C34_Witness ==
    /\ \E r \in Slots :
           /\ owner[r] = "xact"
           /\ Unlisted(r)
           /\ all_requests[r].d.size # 0
           /\ \E l \in Listed : all_requests[l].d.fxid > all_requests[r].d.fxid
    /\ ~oldest_fxid_valid
    /\ restarts = 0
    /\ phase = "running"
    /\ error = "none"

(***************************************************************************)
(* C35: requests_by_fxid and requests_by_size hold the same requests,      *)
(* requests_by_retry_time holds none of them, no request is twice in one   *)
(* RBTree, and the node free list holds 2 * Capacity nodes less two for    *)
(* each request of requests_by_fxid and one for each request of            *)
(* requests_by_retry_time.                                                 *)
(***************************************************************************)
NoDuplicates(rbt) == \A i, j \in 1..Len(rbt) : rbt[i] = rbt[j] => i = j

C35_IndexNodeAccounting ==
    /\ Range(requests_by_fxid) = Range(requests_by_size)
    /\ Range(requests_by_retry_time) \cap Range(requests_by_fxid) = {}
    /\ NoDuplicates(requests_by_fxid)
    /\ NoDuplicates(requests_by_size)
    /\ NoDuplicates(requests_by_retry_time)
    /\ free_request_nodes
           = 2 * Capacity - (2 * Len(requests_by_fxid) + Len(requests_by_retry_time))

\* requests in all three RBTrees, and nodes left on the node free list
C35_Witness ==
    /\ Len(requests_by_fxid) = 2
    /\ Len(requests_by_retry_time) = 1
    /\ free_request_nodes = 1
    /\ restarts = 0
    /\ error = "none"

(***************************************************************************)
(* C36: the request RegisterUndoRequest returns has size 0, no valid       *)
(* location and retry_time DT_NOBEGIN, whatever the request that had the   *)
(* slot before left there.  retry_time then changes only in                *)
(* RescheduleUndoRequest, so that the first RescheduleUndoRequest of the   *)
(* new request sets it to 10 seconds from now, and UnregisterUndoRequest   *)
(* of the new request, while it is not finalized, changes no RBTree.       *)
(***************************************************************************)
\* the free request RegisterUndoRequest will return was finalized and
\* rescheduled when it was last in use
StaleFreeRequest ==
    /\ RegisterResult # NULL
    /\ all_requests[RegisterResult].d.size # 0
    /\ UndoRecPtrIsValid(all_requests[RegisterResult].d.start_location_logged)
    /\ all_requests[RegisterResult].retry_time # DT_NOBEGIN

C36_RegisteredRequestHasNoHistory ==
    /\ [][(first_free_request' # first_free_request) =>
             \A fxid \in Fxids :
                 (RegisterUndoRequest(fxid, DbidOf(fxid)) /\ RegisterResult # NULL) =>
                     \A req \in Slots : req = RegisterResult =>
                         /\ IsFree(req) /\ Unlisted(req)'
                         /\ all_requests'[req].d.fxid = fxid
                         /\ all_requests'[req].d.size = 0
                         /\ all_requests'[req].d.start_location_logged = InvalidUndoRecPtr
                         /\ all_requests'[req].d.end_location_logged = InvalidUndoRecPtr
                         /\ all_requests'[req].d.start_location_unlogged = InvalidUndoRecPtr
                         /\ all_requests'[req].d.end_location_unlogged = InvalidUndoRecPtr
                         /\ all_requests'[req].retry_time = DT_NOBEGIN
                         /\ (RescheduleRetryTime(req) = now + 10 * 1000000)'
                         /\ (UnregisterRemove(Cur, all_requests, req) = Cur)']_vars
    /\ [][(all_requests' # all_requests /\ restarts' = restarts) =>
             \A r \in Slots :
                 all_requests'[r].retry_time # all_requests[r].retry_time =>
                     \/ RescheduleUndoRequest(r)
                     \/ /\ IsFree(r) /\ ~IsFree(r)'
                        /\ all_requests'[r].retry_time = DT_NOBEGIN]_vars
    /\ [](Live => \A r \in Slots :
             (owner[r] = "xact" /\ all_requests[r].d.size = 0) =>
                 /\ all_requests[r].retry_time = DT_NOBEGIN
                 /\ UnregisterRemove(Cur, all_requests, r) = Cur)

\* RegisterUndoRequest is about to return a request whose slot holds what a
\* finalized and rescheduled request left, while a transaction holds a
\* request that is registered and not finalized
C36_Witness ==
    /\ StaleFreeRequest
    /\ \E r \in Slots :
           /\ owner[r] = "xact"
           /\ all_requests[r].d.size = 0
           /\ all_requests[r].retry_time = DT_NOBEGIN
           /\ \E q \in Slots \ {r} : IsFree(q) /\ ~FullTransactionIdIsValid(all_requests[q].d.fxid)
    /\ now > 0
    /\ restarts = 0
    /\ error = "none"

(***************************************************************************)
(* C37: the RBTrees, the two free lists, utilization, source and the       *)
(* oldest fxid change only in a step of the backend that holds the lock,   *)
(* between the LWLockAcquire and the LWLockRelease of the function it is   *)
(* in; at most one backend holds the lock; and a function that returns     *)
(* normally has released it, also when RegisterUndoRequest returns NULL,   *)
(* PerformUndoInBackground returns false or GetNextUndoRequest returns     *)
(* NULL.                                                                   *)
(***************************************************************************)
\* what the lock protects
SharedState ==
    <<first_free_request, free_request_nodes, utilization, source, requests_by_fxid,
      requests_by_size, requests_by_retry_time, oldest_fxid_valid, oldest_fxid>>

C37_LockDiscipline ==
    /\ [](Cardinality(lock) <= 1)
    /\ [][(SharedState' # SharedState) =>
             /\ lock # {}
             /\ \A h \in lock : Locked(h[1], h[2])]_vars
    /\ [][(lock # {} /\ lock' # {}) =>
             \A h \in lock :
                 Locked(h[1], h[2]) =>
                     /\ error' # "none"
                     /\ LockHeldWhenRaised(error')]_vars
    /\ [][(lock' # lock) =>
             \/ lock = {} /\ UNCHANGED SharedState /\ UNCHANGED all_requests
             \/ lock' = {} /\ \A h \in lock : Locked(h[1], h[2])]_vars

\* a backend has the lock in RegisterUndoRequest and will return NULL, while
\* a transaction holds a request it may finalize
C37_Witness ==
    /\ lock = {<<1, "RegisterUndoRequest">>}
    /\ first_free_request = <<>>
    /\ \E r \in Slots : owner[r] = "xact" /\ all_requests[r].d.size = 0
    /\ error = "none"

(***************************************************************************)
(* C38: FindUndoRequestForDatabase ends: its loop is passed at most three  *)
(* times for each request of the longest RBTree and three times more, no   *)
(* iterator returns more nodes than its RBTree has, and the search either  *)
(* returns a request of the database or ends when all three walks have     *)
(* ended, with every request seen and none of the database.  It changes no *)
(* RBTree: after a call of GetNextUndoRequest that searched, the RBTrees   *)
(* are as before but for the request the call returns.                     *)
(***************************************************************************)
\* the passes of "while (1)" after which the search is given up as endless
MaxPasses == 3 * (Capacity + 1) + 1

\* "i = (i + 1) % 3" left out
SearchSameTree(i) == i

\* "i = (i + 1) % 3"
SearchNextTree(i) == (i + 1) % 3

\* the loop of FindUndoRequestForDatabase with its passes counted
RECURSIVE SearchPasses(_, _, _, _, _)
SearchPasses(i, iter, doneflags, dbid, passes) ==
    IF passes >= MaxPasses
    THEN [ended |-> FALSE, req |-> NULL, iter |-> iter, doneflags |-> doneflags,
          passes |-> passes]
    ELSE IF i \notin doneflags
    THEN LET rbt == SourceTree(CursorOrder[i + 1])
             node == IF iter[i + 1] < Len(rbt) THEN rbt[iter[i + 1] + 1] ELSE NULL
         IN  IF node = NULL
             THEN IF doneflags \cup {i} = {0, 1, 2}
                  THEN [ended |-> TRUE, req |-> NULL, iter |-> iter,
                        doneflags |-> doneflags \cup {i}, passes |-> passes + 1]
                  ELSE SearchPasses(SearchNextTree(i), iter, doneflags \cup {i},
                                    dbid, passes + 1)
             ELSE IF all_requests[node].d.dbid = dbid
             THEN [ended |-> TRUE, req |-> node,
                   iter |-> [iter EXCEPT ![i + 1] = @ + 1],
                   doneflags |-> doneflags, passes |-> passes + 1]
             ELSE SearchPasses(SearchNextTree(i), [iter EXCEPT ![i + 1] = @ + 1],
                               doneflags, dbid, passes + 1)
    ELSE SearchPasses(SearchNextTree(i), iter, doneflags, dbid, passes + 1)

\* the requests the iterator of RBTree k has returned
Visited(run, k) == {SourceTree(CursorOrder[k])[j] : j \in 1..run.iter[k]}

C38_SearchTerminates ==
    /\ \A dbid \in Dbids :
          LET run == SearchPasses(0, <<0, 0, 0>>, {}, dbid, 0)
              longest == CHOOSE n \in 0..Capacity :
                             /\ \A k \in 1..3 : Len(SourceTree(CursorOrder[k])) <= n
                             /\ \E k \in 1..3 : Len(SourceTree(CursorOrder[k])) = n
          IN  /\ run.ended
              /\ run.passes <= 3 * (longest + 1)
              /\ run.req = FindUndoRequestForDatabase(dbid)
              /\ \A k \in 1..3 :
                     /\ run.iter[k] <= Len(SourceTree(CursorOrder[k]))
                     /\ Cardinality(Visited(run, k)) = run.iter[k]
              /\ run.req # NULL =>
                     /\ all_requests[run.req].d.dbid = dbid
                     /\ \E k \in 1..3 : run.req \in Visited(run, k)
              /\ run.req = NULL =>
                     /\ run.doneflags = {0, 1, 2}
                     /\ \A k \in 1..3 :
                            /\ run.iter[k] = Len(SourceTree(CursorOrder[k]))
                            /\ \A r \in Visited(run, k) : all_requests[r].d.dbid # dbid
    /\ \A dbid \in Dbids :
           LET c == GetNextChoice(dbid, FALSE)
               m == GetNextRemove(Cur, all_requests, c.req)
           IN  (c.from = "scan" /\ c.req # NULL) =>
                   /\ c.req = FindUndoRequestForDatabase(dbid)
                   /\ m.err = "none"
                   /\ m.fxid = SelectSeq(requests_by_fxid, LAMBDA x : x # c.req)
                   /\ m.size = SelectSeq(requests_by_size, LAMBDA x : x # c.req)
                   /\ m.retry = SelectSeq(requests_by_retry_time,
                                          LAMBDA x : x # c.req)

\* the search passes its loop twelve times: requests_by_retry_time holds
\* three requests, none of the database, and the other RBTrees are empty
C38_Witness ==
    /\ Len(requests_by_retry_time) = Capacity
    /\ requests_by_fxid = <<>>
    /\ \E dbid \in Dbids :
           /\ SearchPasses(0, <<0, 0, 0>>, {}, dbid, 0).passes = 3 * (Capacity + 1)
           /\ FindUndoRequestForDatabase(dbid) = NULL
    /\ error = "none"

(***************************************************************************)
(* C39: while oldest_fxid_valid is set, RegisterUndoRequest(fxid) sets     *)
(* oldest_fxid to fxid when oldest_fxid is InvalidFullTransactionId or     *)
(* fxid precedes it, and leaves it otherwise; while oldest_fxid_valid is   *)
(* not set it leaves oldest_fxid alone; it never changes oldest_fxid_valid.*)
(* UnregisterUndoRequest clears oldest_fxid_valid when the fxid of the     *)
(* request equals oldest_fxid, and otherwise leaves it; it never changes   *)
(* oldest_fxid.  When a valid oldest_fxid is the oldest fxid of the        *)
(* requests in use before either call, it is so after the call.            *)
(***************************************************************************)
\* oldest_fxid, when valid, is what it is meant to be
OldestFxidCoherent ==
    LET fxids == {all_requests[r].d.fxid : r \in NonFree} \ {InvalidFullTransactionId}
    IN  oldest_fxid_valid =>
            IF fxids = {}
            THEN oldest_fxid = InvalidFullTransactionId
            ELSE oldest_fxid \in fxids /\ \A f \in fxids : oldest_fxid <= f

C39_RegisterAndUnregisterKeepOldestFxid ==
    /\ [][(first_free_request' # first_free_request /\ used' # used) =>
             \A fxid \in Fxids :
                 (RegisterUndoRequest(fxid, DbidOf(fxid)) /\ RegisterResult # NULL) =>
                     /\ oldest_fxid_valid' = oldest_fxid_valid
                     /\ (oldest_fxid_valid /\ oldest_fxid = InvalidFullTransactionId) =>
                            oldest_fxid' = fxid
                     /\ (oldest_fxid_valid /\ oldest_fxid # InvalidFullTransactionId
                             /\ fxid < oldest_fxid) => oldest_fxid' = fxid
                     /\ (oldest_fxid_valid /\ oldest_fxid # InvalidFullTransactionId
                             /\ fxid >= oldest_fxid) => oldest_fxid' = oldest_fxid
                     /\ ~oldest_fxid_valid => oldest_fxid' = oldest_fxid
                     /\ OldestFxidCoherent => OldestFxidCoherent']_vars
    /\ [][(first_free_request' # first_free_request /\ used' = used) =>
             \A req \in Slots :
                 UnregisterUndoRequest(req) =>
                     /\ oldest_fxid' = oldest_fxid
                     /\ all_requests[req].d.fxid = oldest_fxid => ~oldest_fxid_valid'
                     /\ all_requests[req].d.fxid # oldest_fxid =>
                            oldest_fxid_valid' = oldest_fxid_valid
                     /\ OldestFxidCoherent => OldestFxidCoherent']_vars

\* transaction 2 registered its request, then transaction 1, which lowered
\* oldest_fxid from 2 to 1
C39_Witness ==
    /\ used = {1, 2}
    /\ restarts = 0
    /\ phase = "running"
    /\ all_requests[1].d.fxid = 2
    /\ all_requests[2].d.fxid = 1
    /\ owner[1] = "xact" /\ owner[2] = "xact"
    /\ oldest_fxid_valid
    /\ oldest_fxid = 1
    /\ error = "none"

====
